---- MODULE Spec2Model ----
(***************************************************************************)
(* Model of the splat transport layer (splat/transport_layer.py): the      *)
(* Transaction state machine, its fragment bookkeeping, file reassembly    *)
(* and integrity check.                                                    *)
(*                                                                         *)
(* Python values are represented as follows:                               *)
(*   bytes            a sequence of byte values                            *)
(*   None / a value   <<>> / <<v>>   (None, Some(v))                       *)
(*   dict             a function whose DOMAIN is the set of keys           *)
(*   list             a sequence                                           *)
(*   arbitrary int    big-endian base-256 digits without leading zeros     *)
(*                    (only for the 64-bit hash integers)                  *)
(*   the file system  disk: path -> None (no such file) or Some(bytes)     *)
(***************************************************************************)
EXTENDS Integers, Sequences, FiniteSets, TLC

(***************************************************************************)
(* Bounds of the model.  MAX_PACKET_SIZE is the fragment payload size; the *)
(* program sets it to 230 (telemetry_definition.py:4), the model scales it *)
(* down so that files of 0, 1, MAX_PACKET_SIZE-1, MAX_PACKET_SIZE,         *)
(* MAX_PACKET_SIZE+1 and several packets are all enumerated.               *)
(***************************************************************************)
MAX_PACKET_SIZE == 2
MaxFileLen == 5
MaxByte == 1
MaxSeq == 2
MaxN == 2

Byte == 0..MaxByte

\* trans_state
REQUESTED == 1
INIT == 2
SENDING == 3
RECEIVING == 4
COMPLETED == 5
SUCCESS == 6
FAILED == 7

\* hashlib sha1 digest length
DIGEST_SIZE == 20

\* message-type tag of a fragment frame
MSG_TYPE_FRAGMENT == 7

\* width in bits of the message type
MSG_TYPE_SIZE == 3

\* width in bits of the report id and of the command id
REPORT_ID_SIZE == 5
COMMAND_ID_SIZE == 13

None == <<>>
Some(v) == <<v>>

VARIABLES disk, snd, rcv, channel, call, phase, tx_dict, rx_dict, threads

vars == <<disk, snd, rcv, channel, call, phase, tx_dict, rx_dict, threads>>

(***************************************************************************)
(* Python helpers                                                          *)
(***************************************************************************)
Min2(a, b) == IF a < b THEN a ELSE b
Max2(a, b) == IF a > b THEN a ELSE b

\* s[a:b] for 0 <= a, clamped to the length of s
Slice(s, a, b) ==
    LET hi == Min2(b, Len(s))
    IN IF a >= hi THEN <<>> ELSE [i \in 1..(hi - a) |-> s[a + i]]

\* x in list
InList(x, l) == \E i \in 1..Len(l) : l[i] = x

\* list.remove(x): drops the first occurrence
ListRemove(l, x) ==
    LET k == CHOOSE i \in 1..Len(l) : l[i] = x /\ \A j \in 1..(i - 1) : l[j] # x
    IN [i \in 1..(Len(l) - 1) |-> IF i < k THEN l[i] ELSE l[i + 1]]

\* set(list)
ListSet(l) == {l[i] : i \in 1..Len(l)}

\* sorted(set)
RECURSIVE Sorted(_)
Sorted(S) ==
    IF S = {} THEN <<>>
    ELSE LET m == CHOOSE x \in S : \A y \in S : x <= y
         IN <<m>> \o Sorted(S \ {m})

\* [x for x in range(0, n)]
RangeList(n) == [i \in 1..n |-> i - 1]

\* dict[k] = v
DictPut(d, k, v) == [x \in (DOMAIN d) \cup {k} |-> IF x = k THEN v ELSE d[x]]

\* all byte strings of length 0..n
BytesUpTo(n) == UNION {[1..k -> Byte] : k \in 0..n}

(***************************************************************************)
(* Fragment frames.  Header [tag:3][tid:3][sequence:13] in three bytes,    *)
(* the payload follows without a length field.                             *)
(***************************************************************************)
PackFragment(tid, seq_number, payload) ==
    << MSG_TYPE_FRAGMENT * 32 + tid * 4 + (seq_number \div 2048),
       (seq_number \div 8) % 256,
       (seq_number % 8) * 32 >> \o payload

UnpackFragment(frame) ==
    [tid        |-> (frame[1] \div 4) % 8,
     seq_number |-> (frame[1] % 4) * 2048 + frame[2] * 8 + (frame[3] \div 32),
     payload    |-> Slice(frame, 3, Len(frame))]

(***************************************************************************)
(* unpack: dispatch on the message type held in the top MSG_TYPE_SIZE bits *)
(* of the first byte.  The result names the decoder the frame is handed to *)
(* (whose return value unpack returns), or the error raised.               *)
(***************************************************************************)
MSG_TYPE_DICT ==
    [reports |-> 0, variable |-> 1, commands |-> 2, responses |-> 3,
     ota |-> 4, image_data |-> 5, ack |-> 6]

Dispatch(msg_type) ==
    IF msg_type = MSG_TYPE_DICT.reports THEN "unpack_report"
    ELSE IF msg_type = MSG_TYPE_DICT.variable THEN "unpack_variable"
    ELSE IF msg_type = MSG_TYPE_DICT.commands THEN "unpack_command"
    ELSE IF msg_type = MSG_TYPE_DICT.responses THEN "unpack_response"
    ELSE IF msg_type = MSG_TYPE_DICT.ack THEN "unpack_ack"
    ELSE "ValueError"

\* unpack reading the message type from the low bits of the first byte
unpack_low_bits(data) ==
    IF data = <<>> THEN "IndexError"
    ELSE Dispatch(data[1] % (2 ^ MSG_TYPE_SIZE))

\* (data[0] >> (8 - MSG_TYPE_SIZE)) & ((1 << MSG_TYPE_SIZE) - 1)
unpack(data) ==
    IF data = <<>> THEN "IndexError"
    ELSE Dispatch((data[1] \div (2 ^ (8 - MSG_TYPE_SIZE))) % (2 ^ MSG_TYPE_SIZE))

(***************************************************************************)
(* Identifier tables (telemetry_definition): a part of the command list    *)
(* and of the report dictionary, names only.  Python compares the names as *)
(* strings; Alphabet lists the names of the model in that order.           *)
(***************************************************************************)
Alphabet ==
    <<"CURRENT_RAM_USAGE", "FORCE_REBOOT", "GPS_MESSAGE_ID", "INIT_TRANS", "SC_STATE",
      "SUM", "TIME", "TM_HAL", "TM_HEARTBEAT", "TM_STORAGE", "TM_TEST">>
AlphaRank(name) == CHOOSE i \in 1..Len(Alphabet) : Alphabet[i] = name

\* sorted(names)
RECURSIVE SortedNames(_)
SortedNames(S) ==
    IF S = {} THEN <<>>
    ELSE LET m == CHOOSE x \in S : \A y \in S : AlphaRank(x) <= AlphaRank(y)
         IN <<m>> \o SortedNames(S \ {m})

\* {name: idx for idx, name in enumerate(names)}
Enumerate(names) ==
    [name \in ListSet(names) |->
        (CHOOSE i \in 1..Len(names) : names[i] = name /\ \A j \in (i + 1)..Len(names) : names[j] # name) - 1]

\* the names as command_list and report_dict declare them
command_list == <<"FORCE_REBOOT", "SUM", "INIT_TRANS">>
report_dict == <<"TM_HEARTBEAT", "TM_STORAGE", "TM_HAL", "TM_TEST">>

\* all_cmd_names = [x[0] for x in command_list]; enumerate(all_cmd_names)
COMMAND_IDS(cl) == Enumerate(cl)

\* enumerate(sorted(report_dict.keys()))
REPORT_IDS(rd) == Enumerate(SortedNames(ListSet(rd)))

(***************************************************************************)
(* Reports.  A part of SS_map and var_dict (subsystem and struct type of   *)
(* each variable) and the report TM_TEST as report_dict declares it: its   *)
(* variables with their subsystems, in declaration order.  A Report holds  *)
(* its values under (subsystem, variable name).                            *)
(***************************************************************************)
SS_map == [CDH |-> 0, GPS |-> 3]
var_dict ==
    [CURRENT_RAM_USAGE |-> <<"CDH", "B">>,
     SC_STATE          |-> <<"CDH", "B">>,
     TIME              |-> <<"CDH", "I">>,
     GPS_MESSAGE_ID    |-> <<"GPS", "B">>]
TM_TEST == << <<"TIME", "CDH">>, <<"SC_STATE", "CDH">>, <<"GPS_MESSAGE_ID", "GPS">> >>

\* sorted(k for k, v in var_dict.items() if v[0] == ss_name)
VarsOf(ss_name) == SortedNames({k \in DOMAIN var_dict : var_dict[k][1] = ss_name})

\* VAR_NAME_TO_ID[name] = (ss_id, var_id)
VAR_NAME_TO_ID(name) ==
    <<SS_map[var_dict[name][1]], Enumerate(VarsOf(var_dict[name][1]))[name]>>

\* VAR_ID_TO_NAME[ss_id][var_id]
VAR_ID_TO_NAME(ss_id, var_id) ==
    CHOOSE name \in DOMAIN var_dict : VAR_NAME_TO_ID(name) = <<ss_id, var_id>>

\* [k for k, v in SS_map.items() if v == ss_id][0]
SsName(ss_id) == CHOOSE k \in DOMAIN SS_map : SS_map[k] = ss_id

\* packing_list.sort(key=lambda x: (x[1], x[0])) on entries [var_id, ss_id]
RECURSIVE SortPacking(_)
SortPacking(S) ==
    IF S = {} THEN <<>>
    ELSE LET m == CHOOSE x \in S :
                     \A y \in S : x[2] < y[2] \/ (x[2] = y[2] /\ x[1] <= y[1])
         IN <<m>> \o SortPacking(S \ {m})

\* the packing list of a report in the order the report declares its variables
ORDERED_REPORT_DICT_declared(decl) ==
    [i \in 1..Len(decl) |-> <<VAR_NAME_TO_ID(decl[i][1])[2], VAR_NAME_TO_ID(decl[i][1])[1]>>]

\* ORDERED_REPORT_DICT[report_name] for a report declared as decl
ORDERED_REPORT_DICT(decl) ==
    SortPacking({<<VAR_NAME_TO_ID(decl[i][1])[2], VAR_NAME_TO_ID(decl[i][1])[1]>> :
                    i \in {j \in 1..Len(decl) : decl[j][1] \in DOMAIN var_dict}})

\* struct with '>': standard sizes, big-endian, no padding
StructSize(t) == IF t = "B" THEN 1 ELSE IF t = "H" THEN 2 ELSE 4
StructPack(t, v) == [i \in 1..StructSize(t) |-> (v \div (256 ^ (StructSize(t) - i))) % 256]
RECURSIVE StructUnpack(_)
StructUnpack(b) ==
    IF b = <<>> THEN 0 ELSE StructUnpack(SubSeq(b, 1, Len(b) - 1)) * 256 + b[Len(b)]

\* Report.__init__: every declared variable starts as None
Report(report_name, decl) ==
    [name      |-> report_name,
     report_id |-> REPORT_IDS(report_dict)[report_name],
     variables |-> [k \in {<<decl[i][2], decl[i][1]>> : i \in 1..Len(decl)} |-> None]]

\* Report.add_variable for a variable the report declares under that subsystem
add_variable(report, var_name, subsystem, value) ==
    [report EXCEPT !.variables =
        [k \in (DOMAIN report.variables) \cup {<<subsystem, var_name>>} |->
            IF k = <<subsystem, var_name>> THEN Some(value) ELSE report.variables[k]]]

\* report.variables.get(ss_name, {}).get(var_name, None), None packed as 0
PackedValue(report, ss_id, var_id) ==
    LET k == <<SsName(ss_id), VAR_ID_TO_NAME(ss_id, var_id)>>
    IN IF k \in DOMAIN report.variables /\ report.variables[k] # None
       THEN report.variables[k][1]
       ELSE 0

RECURSIVE PackValues(_, _)
PackValues(report, order) ==
    IF order = <<>> THEN <<>>
    ELSE StructPack(var_dict[VAR_ID_TO_NAME(order[1][2], order[1][1])][2],
                    PackedValue(report, order[1][2], order[1][1]))
         \o PackValues(report, Tail(order))

pack_report(report, decl) ==
    <<MSG_TYPE_DICT.reports * (2 ^ REPORT_ID_SIZE) + report.report_id>>
    \o PackValues(report, ORDERED_REPORT_DICT(decl))

\* the values read back: report.add_variable(var_name, subsystem, value) in
\* packing order, the subsystem being the one report_dict declares
RECURSIVE UnpackValues(_, _, _, _)
UnpackValues(report, decl, order, data) ==
    IF order = <<>> THEN report
    ELSE LET var_name == VAR_ID_TO_NAME(order[1][2], order[1][1])
             size == StructSize(var_dict[var_name][2])
             subsystem == (CHOOSE i \in 1..Len(decl) : decl[i][1] = var_name)
         IN UnpackValues(add_variable(report, var_name, decl[subsystem][2],
                                      StructUnpack(Slice(data, 0, size))),
                         decl, Tail(order), Slice(data, size, Len(data)))

unpack_report(data, decl) ==
    LET report_id == data[1] % (2 ^ REPORT_ID_SIZE)
        ids == REPORT_IDS(report_dict)
    IN IF \A n \in DOMAIN ids : ids[n] # report_id
       THEN None
       ELSE Some(UnpackValues(Report(CHOOSE n \in DOMAIN ids : ids[n] = report_id, decl),
                              decl, ORDERED_REPORT_DICT(decl), Slice(data, 1, Len(data))))

(***************************************************************************)
(* Transaction                                                             *)
(***************************************************************************)
get_file_size(file_path, d) ==
    IF file_path = None THEN None ELSE Some(Len(d[file_path[1]][1]))

get_number_of_packets(file_size) ==
    IF file_size = None THEN None
    ELSE IF file_size[1] <= 0 THEN Some(0)
    ELSE Some((file_size[1] + MAX_PACKET_SIZE - 1) \div MAX_PACKET_SIZE)

\* Transaction.__init__; the file_hash argument is not stored
Transaction(tid, file_path, file_hash, number_of_packets, is_tx, d) ==
    LET file_size == IF is_tx THEN get_file_size(file_path, d) ELSE None
        n == IF is_tx THEN get_number_of_packets(file_size) ELSE number_of_packets
    IN [state             |-> REQUESTED,
        fragment_dict     |-> <<>>,
        packet_list       |-> <<>>,
        tid               |-> tid,
        file_path         |-> file_path,
        file_size         |-> file_size,
        number_of_packets |-> n,
        file_hash         |-> None,
        missing_fragments |-> IF n # None THEN RangeList(n[1]) ELSE <<>>,
        last_batch        |-> <<>>]

set_number_packets(t, number_of_packets) ==
    [t EXCEPT !.number_of_packets = Some(number_of_packets),
              !.missing_fragments = RangeList(number_of_packets)]

is_completed(t) == t.state = COMPLETED

\* SHA-1 as a collision-free digest of DIGEST_SIZE bytes over the bounded
\* inputs of the model: length + 1, the bytes, zero padding.
calculate_hash(file_bytes) ==
    [i \in 1..DIGEST_SIZE |->
        IF i = 1 THEN Len(file_bytes) + 1
        ELSE IF i - 1 <= Len(file_bytes) THEN file_bytes[i - 1]
        ELSE 0]

calculate_file_hash(t, d) ==
    IF t.file_path = None THEN None ELSE Some(calculate_hash(d[t.file_path[1]][1]))

\* int.from_bytes(b, 'big'): the digits of b without leading zeros
RECURSIVE FromBytes(_)
FromBytes(b) ==
    IF b = <<>> THEN <<>>
    ELSE IF b[1] = 0 THEN FromBytes(Tail(b))
    ELSE b

\* ToBytes padding after the digits
ToBytesTrailing(x, k) == [i \in 1..k |-> IF i <= Len(x) THEN x[i] ELSE 0]

\* x.to_bytes(k, 'big') for a value that fits in k bytes
ToBytes(x, k) == [i \in 1..k |-> IF i <= k - Len(x) THEN 0 ELSE x[i - (k - Len(x))]]

get_hash_as_integers(t) ==
    IF t.file_hash = None THEN << <<>>, <<>>, <<>> >>
    ELSE LET h == t.file_hash[1]
         IN << FromBytes(Slice(h, 0, 8)), FromBytes(Slice(h, 8, 16)), FromBytes(Slice(h, 16, 20)) >>

\* raises OverflowError (nothing is assigned) when an integer does not fit
set_hash_from_integers(t, hash_MSB, hash_middlesb, hash_LSB) ==
    IF Len(hash_MSB) > 8 \/ Len(hash_middlesb) > 8 \/ Len(hash_LSB) > 4
    THEN [t |-> t, ret |-> "OverflowError"]
    ELSE [t |-> [t EXCEPT !.file_hash =
                    Some(ToBytes(hash_MSB, 8) \o ToBytes(hash_middlesb, 8) \o ToBytes(hash_LSB, 4))],
          ret |-> "None"]

change_state(t, new_state) == [t EXCEPT !.state = new_state]

\* AddPacketCompletes comparing the count it had before the store
AddPacketCompletesEarly(fd, number_of_packets) ==
    number_of_packets # None /\ Cardinality(DOMAIN fd) + 1 = number_of_packets[1]

AddPacketCompletes(fd, number_of_packets) ==
    number_of_packets # None /\ Cardinality(DOMAIN fd) = number_of_packets[1]

\* the state change, the store and the removal from the missing list
AddPacketStore(t, seq_number, fragment) ==
    LET t1 == IF t.state # RECEIVING THEN change_state(t, RECEIVING) ELSE t
    IN [t1 EXCEPT !.fragment_dict = DictPut(t.fragment_dict, seq_number, fragment),
                  !.missing_fragments = IF InList(seq_number, t.missing_fragments)
                                        THEN ListRemove(t.missing_fragments, seq_number)
                                        ELSE t.missing_fragments]

\* add_packet reporting completion only when the call left another state
add_packet_once(t, seq_number, fragment, check) ==
    LET t2 == AddPacketStore(t, seq_number, fragment)
    IN IF check /\ AddPacketCompletes(t2.fragment_dict, t2.number_of_packets)
       THEN [t |-> change_state(t2, COMPLETED),
             ret |-> IF t.state # COMPLETED THEN "True" ELSE "False"]
       ELSE [t |-> t2, ret |-> "False"]

add_packet(t, seq_number, fragment, check) ==
    LET t2 == AddPacketStore(t, seq_number, fragment)
    IN IF check /\ AddPacketCompletes(t2.fragment_dict, t2.number_of_packets)
       THEN [t |-> change_state(t2, COMPLETED), ret |-> "True"]
       ELSE [t |-> t2, ret |-> "False"]

\* fragment is an unpacked Fragment: [tid, seq_number, payload]
add_fragment(t, fragment) == add_packet(t, fragment.seq_number, fragment.payload, TRUE)

\* the bytes write_file has written when it stops at sequence number upto
RECURSIVE Assemble(_, _)
Assemble(fd, upto) ==
    IF upto = 0 THEN <<>> ELSE Assemble(fd, upto - 1) \o fd[upto - 1]

\* sequence numbers of 0..n-1 without a stored fragment
Holes(t) == {i \in 0..(t.number_of_packets[1] - 1) : i \notin DOMAIN t.fragment_dict}

\* write_fragments passing over a sequence number without a fragment
write_fragments_skipping(t) ==
    LET present == {i \in 0..(t.number_of_packets[1] - 1) : i \in DOMAIN t.fragment_dict}
        fd == [i \in 0..(Cardinality(present) - 1) |->
                 t.fragment_dict[CHOOSE k \in present :
                                    Cardinality({j \in present : j < k}) = i]]
    IN [complete |-> TRUE, data |-> Assemble(fd, Cardinality(present))]

\* the write loop: stops at the first sequence number without a fragment
write_fragments(t) ==
    IF Holes(t) # {}
    THEN LET first == CHOOSE i \in Holes(t) : \A j \in Holes(t) : i <= j
         IN [complete |-> FALSE, data |-> Assemble(t.fragment_dict, first)]
    ELSE [complete |-> TRUE, data |-> Assemble(t.fragment_dict, t.number_of_packets[1])]

\* verify_hash without the comparison
verify_hash_skipped(t, file_data) == SUCCESS

\* the state write_file leaves after the file is written
verify_hash(t, file_data) ==
    IF t.file_hash # None /\ calculate_hash(file_data) # t.file_hash[1]
    THEN FAILED
    ELSE SUCCESS

\* write_file(folder=None); a TypeError leaves the transaction as it was
write_file(t, d) ==
    IF t.file_path = None
    THEN [t |-> t, disk |-> d, ret |-> "TypeError"]
    ELSE LET path == t.file_path[1]
         IN IF t.number_of_packets = None
            THEN [t |-> t, disk |-> [d EXCEPT ![path] = Some(<<>>)], ret |-> "TypeError"]
            ELSE LET w == write_fragments(t)
                     d2 == [d EXCEPT ![path] = Some(w.data)]
                 IN IF ~w.complete
                    THEN [t |-> t, disk |-> d2, ret |-> "False"]
                    ELSE LET st == verify_hash(t, w.data)
                         IN [t    |-> change_state(t, st),
                             disk |-> d2,
                             ret  |-> IF st = SUCCESS THEN "True" ELSE "False"]

\* FragmentBytes with the slice one byte short
FragmentBytesShort(file_data, i) ==
    Slice(file_data, i * MAX_PACKET_SIZE, (i + 1) * MAX_PACKET_SIZE - 1)

\* file_data[i*MAX_PACKET_SIZE:(i+1)*MAX_PACKET_SIZE], also f.seek / f.read
FragmentBytes(file_data, i) ==
    Slice(file_data, i * MAX_PACKET_SIZE, (i + 1) * MAX_PACKET_SIZE)

\* the packed fragments of the sequence numbers in list l, in that order
PackList(t, file_data, l) ==
    [k \in 1..Len(l) |-> PackFragment(t.tid, l[k], FragmentBytes(file_data, l[k]))]

\* returns self.packet_list, to which every call appends
generate_all_packets(t, d) ==
    IF t.file_path = None
    THEN [t |-> t, ret |-> "TypeError", out |-> <<>>]
    ELSE LET file_data == d[t.file_path[1]][1]
             pl == t.packet_list \o PackList(t, file_data, t.missing_fragments)
         IN [t   |-> [t EXCEPT !.packet_list = pl, !.last_batch = t.missing_fragments],
             ret |-> "list",
             out |-> pl]

\* missing_fragments[i] raises IndexError when x exceeds a non-empty
\* missing list; last_batch then holds the entries read so far
generate_x_packets(t, x, d) ==
    LET m == t.missing_fragments
        k == Max2(0, Min2(x, Len(m)))
        batch == [i \in 1..k |-> m[i]]
    IN IF k > 0 /\ t.file_path = None
       THEN [t |-> [t EXCEPT !.last_batch = <<m[1]>>], ret |-> "TypeError", out |-> <<>>]
       ELSE IF x > Len(m) /\ Len(m) > 0
       THEN [t |-> [t EXCEPT !.last_batch = batch], ret |-> "IndexError", out |-> <<>>]
       ELSE [t   |-> [t EXCEPT !.last_batch = batch],
             ret |-> "list",
             out |-> IF k = 0 THEN <<>> ELSE PackList(t, d[t.file_path[1]][1], batch)]

\* generate_specific_packet recording the fragment as a batch
generate_specific_packet_batched(t, seq_number, d) ==
    IF t.file_path = None \/ seq_number < 0 \/ seq_number >= t.number_of_packets[1]
    THEN [t |-> t, ret |-> "None", out |-> <<>>]
    ELSE [t   |-> [t EXCEPT !.last_batch = <<seq_number>>],
          ret |-> "packet",
          out |-> << PackFragment(t.tid, seq_number,
                                  FragmentBytes(d[t.file_path[1]][1], seq_number)) >>]

\* returns None (no packet) when there is no file path or seq_number is out
\* of range; a sender always knows number_of_packets once it has a path
generate_specific_packet(t, seq_number, d) ==
    IF t.file_path = None
    THEN [t |-> t, ret |-> "None", out |-> <<>>]
    ELSE IF seq_number < 0 \/ seq_number >= t.number_of_packets[1]
    THEN [t |-> t, ret |-> "None", out |-> <<>>]
    ELSE [t   |-> t,
          ret |-> "packet",
          out |-> << PackFragment(t.tid, seq_number,
                                  FragmentBytes(d[t.file_path[1]][1], seq_number)) >>]

\* (bitmap >> bit_pos) & 1
Bit(bitmap, bit_pos) == (bitmap \div (2 ^ bit_pos)) % 2

\* sequence numbers of last_batch whose bit, MSB first, is 1
ConfirmedSet(last_batch, bitmap) ==
    {last_batch[i + 1] : i \in {j \in 0..(Len(last_batch) - 1) :
                                   Bit(bitmap, (Len(last_batch) - 1) - j) = 1}}

\* returns len(missing_fragments)
confirm_last_batch(t, bitmap) ==
    IF t.last_batch = <<>>
    THEN [t |-> t, val |-> Len(t.missing_fragments)]
    ELSE LET missing_set == ListSet(t.missing_fragments) \ ConfirmedSet(t.last_batch, bitmap)
         IN [t   |-> [t EXCEPT !.missing_fragments = Sorted(missing_set), !.last_batch = <<>>],
             val |-> Cardinality(missing_set)]

overwrite_missing_fragments(t, new_missing_fragments) ==
    [t EXCEPT !.missing_fragments = new_missing_fragments]

\* removes the first occurrence of each listed number that is still missing
RECURSIVE RemoveEach(_, _)
RemoveEach(missing, rx_fragment_list) ==
    IF rx_fragment_list = <<>> THEN missing
    ELSE RemoveEach(IF InList(Head(rx_fragment_list), missing)
                    THEN ListRemove(missing, Head(rx_fragment_list))
                    ELSE missing,
                    Tail(rx_fragment_list))

add_received_list(t, rx_fragment_list) ==
    [t EXCEPT !.missing_fragments = RemoveEach(t.missing_fragments, rx_fragment_list)]

(***************************************************************************)
(* Commands.  The argument lists of the commands of the model and the      *)
(* struct types of their arguments.  An argument value is None or Some(v), *)
(* v an integer written as its base-256 digits without leading zeros.      *)
(***************************************************************************)
command_args ==
    [FORCE_REBOOT |-> <<>>,
     SUM          |-> <<"op1", "op2">>,
     INIT_TRANS   |-> <<"tid", "number_of_packets", "hash_MSB", "hash_LSB">>]
argument_dict ==
    [op1 |-> "I", op2 |-> "I", tid |-> "B", number_of_packets |-> "H",
     hash_MSB |-> "Q", hash_LSB |-> "Q"]

\* struct.calcsize of one argument type
ArgSize(t) == IF t = "Q" THEN 8 ELSE StructSize(t)

\* the digits of an integer below 65536
IntDigits(k) == FromBytes(<<k \div 256, k % 256>>)

\* Command.__init__ for a name of the command list cl
Command(cmd_name, cl) ==
    [name       |-> cmd_name,
     command_id |-> COMMAND_IDS(cl)[cmd_name],
     arg_names  |-> command_args[cmd_name],
     arguments  |-> <<>>]

\* Command.add_argument
add_argument(command, arg_name, value) ==
    IF ~InList(arg_name, command.arg_names)
    THEN [c |-> command, ret |-> "ValueError"]
    ELSE [c |-> [command EXCEPT !.arguments = DictPut(@, arg_name, value)], ret |-> "None"]

\* Command.set_arguments(**kwargs): the pairs in order, up to the first that raises
RECURSIVE set_arguments(_, _)
set_arguments(command, kwargs) ==
    IF kwargs = <<>> THEN [c |-> command, ret |-> "None"]
    ELSE LET r == add_argument(command, kwargs[1][1], kwargs[1][2])
         IN IF r.ret # "None" THEN r ELSE set_arguments(r.c, Tail(kwargs))

\* command.arguments.get(arg_name, None)
ArgumentGet(command, arg_name) ==
    IF arg_name \in DOMAIN command.arguments THEN command.arguments[arg_name] ELSE None

RECURSIVE PackArguments(_, _)
PackArguments(command, names) ==
    IF names = <<>> THEN <<>>
    ELSE ToBytes(ArgumentGet(command, names[1])[1], ArgSize(argument_dict[names[1]]))
         \o PackArguments(command, Tail(names))

\* pack_command: the frame, or the error raised
pack_command(command) ==
    IF \E i \in 1..Len(command.arg_names) : ArgumentGet(command, command.arg_names[i]) = None
    THEN [ret |-> "ValueError", frame |-> <<>>]
    ELSE IF \E i \in 1..Len(command.arg_names) :
               Len(ArgumentGet(command, command.arg_names[i])[1])
                  > ArgSize(argument_dict[command.arg_names[i]])
    THEN [ret |-> "struct.error", frame |-> <<>>]
    ELSE [ret   |-> "bytes",
          frame |-> <<MSG_TYPE_DICT.commands * 32 + command.command_id \div 256,
                      command.command_id % 256>>
                    \o PackArguments(command, command.arg_names)]

RECURSIVE FormatSize(_)
FormatSize(names) ==
    IF names = <<>> THEN 0 ELSE ArgSize(argument_dict[names[1]]) + FormatSize(Tail(names))

RECURSIVE UnpackArguments(_, _, _)
UnpackArguments(command, names, data) ==
    IF names = <<>> THEN command
    ELSE LET size == ArgSize(argument_dict[names[1]])
         IN UnpackArguments(add_argument(command, names[1],
                                         Some(FromBytes(Slice(data, 0, size)))).c,
                            Tail(names), Slice(data, size, Len(data)))

\* unpack_command: the command, or the error raised
unpack_command(data, cl) ==
    LET command_id == StructUnpack(Slice(data, 0, 2)) % (2 ^ COMMAND_ID_SIZE)
        payload == Slice(data, 2, Len(data))
    IN IF command_id > Len(cl) THEN [ret |-> "ValueError", c |-> None]
       ELSE IF command_id = Len(cl) THEN [ret |-> "IndexError", c |-> None]
       ELSE IF Len(payload) < FormatSize(command_args[cl[command_id + 1]])
       THEN [ret |-> "struct.error", c |-> None]
       ELSE [ret |-> "Command",
             c   |-> Some(UnpackArguments(Command(cl[command_id + 1], cl),
                                          command_args[cl[command_id + 1]], payload))]

(***************************************************************************)
(* Missing-set bitmaps.  A bitmap argument is <<v>> for the integer v or   *)
(* <<msb, lsb>> for a pair.  The half-word of the wire format is WORD_BITS *)
(* bits wide and a window holds at most MAX_BITS = 2 * WORD_BITS bits.     *)
(***************************************************************************)
WORD_BITS == 1
MAX_BITS == 2 * WORD_BITS
WORD_MASK == 2 ^ WORD_BITS

\* a | b on non-negative integers below 2 ^ (2 * MAX_BITS)
RECURSIVE BitOrFrom(_, _, _)
BitOrFrom(a, b, bit_pos) ==
    IF bit_pos < 0 THEN 0
    ELSE Max2(Bit(a, bit_pos), Bit(b, bit_pos)) * (2 ^ bit_pos) + BitOrFrom(a, b, bit_pos - 1)

BitOr(a, b) == BitOrFrom(a, b, 2 * MAX_BITS - 1)

\* the bitmap read from the first element alone
BitmapInt_msb_only(bitmap) == bitmap[1]

\* (int(bitmap[0]) << 16) | int(bitmap[1]) for a pair, int(bitmap) otherwise
BitmapInt(bitmap) ==
    IF Len(bitmap) = 2 THEN BitOr(bitmap[1] * WORD_MASK, bitmap[2]) ELSE bitmap[1]

\* update_missing_fragments_bitmap reading the window LSB first
update_missing_fragments_bitmap_lsb_first(t, seq_offset, bitmap, max_bits) ==
    IF t.number_of_packets = None \/ seq_offset < 0 THEN t
    ELSE LET width == Min2(max_bits, Max2(0, t.number_of_packets[1] - seq_offset))
             received == {seq_offset + i : i \in {j \in 0..(width - 1) :
                                                     Bit(BitmapInt(bitmap), j) = 1}}
             window == {seq_offset + i : i \in 0..(width - 1)}
         IN IF width <= 0 THEN t
            ELSE [t EXCEPT !.missing_fragments =
                     Sorted((ListSet(t.missing_fragments) \cup window) \ received)]

update_missing_fragments_bitmap(t, seq_offset, bitmap, max_bits) ==
    IF t.number_of_packets = None \/ seq_offset < 0 THEN t
    ELSE LET width == Min2(max_bits, Max2(0, t.number_of_packets[1] - seq_offset))
             received == {seq_offset + i : i \in {j \in 0..(width - 1) :
                                    Bit(BitmapInt(bitmap), (width - 1) - j) = 1}}
             window == {seq_offset + i : i \in 0..(width - 1)}
         IN IF width <= 0 THEN t
            ELSE [t EXCEPT !.missing_fragments =
                     Sorted((ListSet(t.missing_fragments) \cup window) \ received)]

\* the bitmap of one window: bit (width-1)-bit_index is set when
\* seq_offset + bit_index is not missing
RECURSIVE WindowBitmap(_, _, _, _)
WindowBitmap(missing_set, seq_offset, width, bit_index) ==
    IF bit_index >= width THEN 0
    ELSE (IF seq_offset + bit_index \notin missing_set
          THEN 2 ^ ((width - 1) - bit_index) ELSE 0)
         + WindowBitmap(missing_set, seq_offset, width, bit_index + 1)

\* the list of [seq_offset, msb_bitmap, lsb_bitmap], one per window
generate_missing_bitmaps(t, max_bits) ==
    IF t.number_of_packets = None THEN <<>>
    ELSE LET n == t.number_of_packets[1]
             windows == (n + max_bits - 1) \div max_bits
         IN [k \in 1..windows |->
               LET seq_offset == (k - 1) * max_bits
                   width == Min2(max_bits, n - seq_offset)
                   bitmap == WindowBitmap(ListSet(t.missing_fragments), seq_offset, width, 0)
               IN << seq_offset, (bitmap \div WORD_MASK) % WORD_MASK, bitmap % WORD_MASK >>]

\* update_missing_fragments_bitmap(offset, (msb, lsb), max_bits) for each
\* entry of bitmap_list in turn
RECURSIVE ApplyBitmaps(_, _, _)
ApplyBitmaps(t, bitmap_list, max_bits) ==
    IF bitmap_list = <<>> THEN t
    ELSE ApplyBitmaps(update_missing_fragments_bitmap(t, Head(bitmap_list)[1],
                          << Head(bitmap_list)[2], Head(bitmap_list)[3] >>, max_bits),
                      Tail(bitmap_list), max_bits)

(***************************************************************************)
(* TransactionManager.  tx_dict and rx_dict map a tid to its transaction;  *)
(* a tid argument is None or Some(k), is_tx is None, Some(TRUE) or         *)
(* Some(FALSE).  Every operation returns the two dictionaries and its      *)
(* return value.                                                           *)
(***************************************************************************)
MAX_TRANSACTIONS == 2

\* `if is_tx`: None and False are both falsy
IsTx(is_tx) == is_tx # None /\ is_tx[1]

\* del dict[k]
DictDel(d, k) == [x \in (DOMAIN d) \ {k} |-> d[x]]

\* dict.get(k, None)
DictGet(d, k) == IF k \in DOMAIN d THEN Some(d[k]) ELSE None

SetMin(S) == CHOOSE x \in S : \A y \in S : x <= y

\* min(set(range(MAX_TRANSACTIONS)) - set(target_dict.keys()))
SmallestUnused(target_dict) == SetMin((0..(MAX_TRANSACTIONS - 1)) \ DOMAIN target_dict)

\* create_transaction refusing a tid that is already registered
create_transaction_keeping(tx, rx, tid, file_path, file_hash, number_of_packets, is_tx, d) ==
    LET target_dict == IF IsTx(is_tx) THEN tx ELSE rx
        trans == Transaction(tid[1], file_path, file_hash, number_of_packets, IsTx(is_tx), d)
        stored == DictPut(target_dict, tid[1], trans)
    IN IF tid = None \/ tid[1] \in DOMAIN target_dict
       THEN [tx |-> tx, rx |-> rx, ret |-> None]
       ELSE [tx  |-> IF IsTx(is_tx) THEN stored ELSE tx,
             rx  |-> IF IsTx(is_tx) THEN rx ELSE stored,
             ret |-> Some(trans)]

create_transaction(tx, rx, tid, file_path, file_hash, number_of_packets, is_tx, d) ==
    LET target_dict == IF IsTx(is_tx) THEN tx ELSE rx
        new_tid == IF tid = None THEN SmallestUnused(target_dict) ELSE tid[1]
        trans == Transaction(new_tid, file_path, file_hash, number_of_packets, IsTx(is_tx), d)
        overwritten == IF new_tid \in DOMAIN target_dict
                       THEN DictDel(target_dict, new_tid)
                       ELSE target_dict
        stored == DictPut(overwritten, new_tid, trans)
    IN IF IsTx(is_tx) /\ tid = None
       THEN [tx |-> tx, rx |-> rx, ret |-> None]
       ELSE IF ~IsTx(is_tx) /\ tid = None
               /\ Cardinality(DOMAIN target_dict) >= MAX_TRANSACTIONS
       THEN [tx |-> tx, rx |-> rx, ret |-> None]
       ELSE [tx  |-> IF IsTx(is_tx) THEN stored ELSE tx,
             rx  |-> IF IsTx(is_tx) THEN rx ELSE stored,
             ret |-> Some(trans)]

\* a Transaction object is truthy, so `a or b` is a unless a is None
get_transaction(tx, rx, tid, is_tx) ==
    IF is_tx = Some(TRUE) THEN DictGet(tx, tid)
    ELSE IF is_tx = Some(FALSE) THEN DictGet(rx, tid)
    ELSE IF DictGet(tx, tid) # None THEN DictGet(tx, tid) ELSE DictGet(rx, tid)

delete_transaction(tx, rx, tid, is_tx) ==
    IF (is_tx = Some(TRUE) \/ is_tx = None) /\ tid \in DOMAIN tx
    THEN [tx |-> DictDel(tx, tid), rx |-> rx, ret |-> "True"]
    ELSE IF (is_tx = Some(FALSE) \/ is_tx = None) /\ tid \in DOMAIN rx
    THEN [tx |-> tx, rx |-> DictDel(rx, tid), ret |-> "True"]
    ELSE [tx |-> tx, rx |-> rx, ret |-> "False"]

\* the tids whose transaction is FAILED
FailedTids(d) == {tid \in DOMAIN d : d[tid].state = FAILED}

\* the dictionary without the listed tids (delete_transaction on each)
DeleteEach(d, failed_tids) == [x \in (DOMAIN d) \ failed_tids |-> d[x]]

clear_failed_transactions(tx, rx, is_tx) ==
    LET tx_failed == IF is_tx = Some(TRUE) \/ is_tx = None THEN FailedTids(tx) ELSE {}
        rx_failed == IF is_tx = Some(FALSE) \/ is_tx = None THEN FailedTids(rx) ELSE {}
    IN [tx  |-> DeleteEach(tx, tx_failed),
        rx  |-> DeleteEach(rx, rx_failed),
        ret |-> Cardinality(tx_failed) + Cardinality(rx_failed)]

\* get_tid_number(): the tid of create_transaction(is_tx=True), or None
get_tid_number(tx, rx, d) ==
    LET r == create_transaction(tx, rx, None, None, None, None, Some(TRUE), d)
    IN [tx |-> r.tx, rx |-> r.rx, ret |-> IF r.ret # None THEN Some(r.ret[1].tid) ELSE None]

(***************************************************************************)
(* The record of the last call: its name, its argument (a sequence number, *)
(* a count or a bitmap, -1 when it has none), how it returned, the packets *)
(* it returned and the state the transaction was in when it was called     *)
(* (for confirm_last_batch, the transaction itself as it was then).        *)
(***************************************************************************)
Call(op, arg, ret, out, pre) == [op |-> op, arg |-> arg, ret |-> ret, out |-> out, pre |-> pre]

Files == BytesUpTo(MaxFileLen)
Tids == {0, 5}
NoChannel == {}
Idle == [step |-> "idle", mode |-> "none", requested |-> {}]

\* the module-level dictionaries start empty and no thread is in the manager
NoThreads == <<>>
NoManager == tx_dict = <<>> /\ rx_dict = <<>> /\ threads = NoThreads

(***************************************************************************)
(* SpecRx: one receiving transaction under every order of its calls.       *)
(***************************************************************************)
\* payloads a fragment may carry, and the digests INIT_TRANS may announce
RxPayloads == {<<0>>, <<MaxByte>>}
RxContents == {[i \in 1..k |-> 0] : k \in {1, MaxN}}
RxHashIntegers ==
    {get_hash_as_integers([file_hash |-> Some(calculate_hash(c))]) : c \in RxContents}

InitRx ==
    /\ disk = [p \in {"src", "dst"} |-> IF p = "src" THEN Some(<<>>) ELSE None]
    /\ snd = Transaction(0, None, None, None, FALSE, disk)
    /\ \E n \in {None} \cup {Some(k) : k \in 0..MaxN} :
          rcv = Transaction(0, Some("dst"), None, n, FALSE, disk)
    /\ channel = NoChannel
    /\ call = Call("init", -1, "None", <<>>, REQUESTED)
    /\ phase = Idle
    /\ NoManager

RxAddFragment(seq, payload) ==
    LET r == add_fragment(rcv, [tid |-> rcv.tid, seq_number |-> seq, payload |-> payload])
    IN /\ rcv' = r.t
       /\ call' = Call("add_fragment", seq, r.ret, <<>>, rcv.state)
       /\ UNCHANGED <<disk, snd, channel, phase, tx_dict, rx_dict, threads>>

RxSetNumberPackets(n) ==
    /\ rcv' = set_number_packets(rcv, n)
    /\ call' = Call("set_number_packets", n, "None", <<>>, rcv.state)
    /\ UNCHANGED <<disk, snd, channel, phase, tx_dict, rx_dict, threads>>

RxSetHashFromIntegers(h) ==
    LET r == set_hash_from_integers(rcv, h[1], h[2], h[3])
    IN /\ rcv' = r.t
       /\ call' = Call("set_hash_from_integers", -1, r.ret, <<>>, rcv.state)
       /\ UNCHANGED <<disk, snd, channel, phase, tx_dict, rx_dict, threads>>

RxWriteFile ==
    LET r == write_file(rcv, disk)
    IN /\ rcv' = r.t
       /\ disk' = r.disk
       /\ call' = Call("write_file", -1, r.ret, <<>>, rcv.state)
       /\ UNCHANGED <<snd, channel, phase, tx_dict, rx_dict, threads>>

NextRx ==
    \/ \E seq \in 0..MaxSeq, payload \in RxPayloads : RxAddFragment(seq, payload)
    \/ \E n \in 0..MaxN : RxSetNumberPackets(n)
    \/ \E h \in RxHashIntegers : RxSetHashFromIntegers(h)
    \/ RxWriteFile

SpecRx == InitRx /\ [][NextRx]_vars

(***************************************************************************)
(* SpecTx: one sending transaction under every order of its calls.         *)
(***************************************************************************)
MaxListLen == 2
MaxPackets == 3

\* one source file of every length, with distinguishable bytes
TxFiles == {[i \in 1..k |-> i % (MaxByte + 1)] : k \in 0..MaxFileLen}
SeqLists == UNION {[1..k -> 0..MaxSeq] : k \in 0..MaxListLen}

InitTx ==
    /\ \E f \in TxFiles :
          disk = [p \in {"src", "dst"} |-> IF p = "src" THEN Some(f) ELSE None]
    /\ snd = Transaction(5, Some("src"), None, None, TRUE, disk)
    /\ rcv = Transaction(0, None, None, None, FALSE, disk)
    /\ channel = NoChannel
    /\ call = Call("init", -1, "None", <<>>, REQUESTED)
    /\ phase = Idle
    /\ NoManager

TxGenerateAll ==
    LET r == generate_all_packets(snd, disk)
    IN /\ Len(r.t.packet_list) <= MaxPackets
       /\ snd' = r.t
       /\ call' = Call("generate_all_packets", -1, r.ret, r.out, snd.state)
       /\ UNCHANGED <<disk, rcv, channel, phase, tx_dict, rx_dict, threads>>

TxGenerateX(x) ==
    LET r == generate_x_packets(snd, x, disk)
    IN /\ snd' = r.t
       /\ call' = Call("generate_x_packets", x, r.ret, r.out, snd.state)
       /\ UNCHANGED <<disk, rcv, channel, phase, tx_dict, rx_dict, threads>>

TxGenerateSpecific(seq) ==
    LET r == generate_specific_packet(snd, seq, disk)
    IN /\ snd' = r.t
       /\ call' = Call("generate_specific_packet", seq, r.ret, r.out, snd.state)
       /\ UNCHANGED <<disk, rcv, channel, phase, tx_dict, rx_dict, threads>>

TxOverwriteMissing(l) ==
    /\ snd' = overwrite_missing_fragments(snd, l)
    /\ call' = Call("overwrite_missing_fragments", -1, "None", <<>>, snd.state)
    /\ UNCHANGED <<disk, rcv, channel, phase, tx_dict, rx_dict, threads>>

TxAddReceivedList(l) ==
    /\ snd' = add_received_list(snd, l)
    /\ call' = Call("add_received_list", -1, "None", <<>>, snd.state)
    /\ UNCHANGED <<disk, rcv, channel, phase, tx_dict, rx_dict, threads>>

TxConfirmLastBatch(bitmap) ==
    LET r == confirm_last_batch(snd, bitmap)
    IN /\ snd' = r.t
       /\ call' = Call("confirm_last_batch", bitmap, r.val, <<>>, snd)
       /\ UNCHANGED <<disk, rcv, channel, phase, tx_dict, rx_dict, threads>>

NextTx ==
    \/ TxGenerateAll
    \/ \E x \in 0..(MaxSeq + 1) : TxGenerateX(x)
    \/ \E seq \in 0..(MaxSeq + 1) : TxGenerateSpecific(seq)
    \/ \E l \in SeqLists : TxOverwriteMissing(l)

SpecTx == InitTx /\ [][NextTx]_vars

(***************************************************************************)
(* SpecSync: the sender's missing set under batches, single-fragment       *)
(* requests and confirmations, for a sender built with or without a file   *)
(* path.                                                                   *)
(***************************************************************************)
InitSync ==
    /\ \E f \in TxFiles :
          disk = [p \in {"src", "dst"} |-> IF p = "src" THEN Some(f) ELSE None]
    /\ \E file_path \in {None, Some("src")} :
          snd = Transaction(5, file_path, None, None, TRUE, disk)
    /\ rcv = Transaction(0, None, None, None, FALSE, disk)
    /\ channel = NoChannel
    /\ call = Call("init", -1, "None", <<>>, REQUESTED)
    /\ phase = Idle
    /\ NoManager

SpecificSeqs == (0 - 1)..(MaxSeq + 1)

\* the lists of at most two sequence numbers a peer may send
SeqPairs ==
    {<<>>} \cup {<<a>> : a \in 0..MaxSeq} \cup {<<a, b>> : a \in 0..MaxSeq, b \in 0..MaxSeq}

NextSync ==
    \/ \E x \in 0..(MaxSeq + 1) : TxGenerateX(x)
    \/ \E seq \in SpecificSeqs : TxGenerateSpecific(seq)
    \/ \E l \in SeqPairs : TxOverwriteMissing(l)
    \/ \E l \in SeqPairs : TxAddReceivedList(l)
    \/ \E bitmap \in 0..(2 ^ MaxListLen - 1) : TxConfirmLastBatch(bitmap)

SpecSync == InitSync /\ [][NextSync]_vars

(***************************************************************************)
(* SpecTransfer: a sender packetises a source file, the frames are         *)
(* delivered once each in any order to a fresh receiver that was given the *)
(* sender's fragment count and hash, and the receiver writes the file.     *)
(* The sender's hash is absent (as its constructor leaves it) or the       *)
(* digest of its file (calculate_file_hash).                               *)
(***************************************************************************)
InitTransfer ==
    /\ \E f \in Files :
          disk = [p \in {"src", "dst"} |-> IF p = "src" THEN Some(f) ELSE None]
    /\ \E tid \in Tids, with_hash \in BOOLEAN :
          LET s == Transaction(tid, Some("src"), None, None, TRUE, disk)
          IN snd = IF with_hash
                   THEN [s EXCEPT !.file_hash = calculate_file_hash(s, disk)]
                   ELSE s
    /\ rcv = [Transaction(snd.tid, Some("dst"), None, snd.number_of_packets, FALSE, disk)
                 EXCEPT !.file_hash = snd.file_hash]
    /\ channel = NoChannel
    /\ call = Call("init", -1, "None", <<>>, REQUESTED)
    /\ \E mode \in {"all", "specific"} :
          phase = [step |-> "generate", mode |-> mode, requested |-> {}]
    /\ NoManager

TransferGenerateAll ==
    LET r == generate_all_packets(snd, disk)
    IN /\ phase.step = "generate" /\ phase.mode = "all"
       /\ snd' = r.t
       /\ channel' = ListSet(r.out)
       /\ call' = Call("generate_all_packets", -1, r.ret, r.out, snd.state)
       /\ phase' = [phase EXCEPT !.step = "deliver",
                                 !.requested = 0..(snd.number_of_packets[1] - 1)]
       /\ UNCHANGED <<disk, rcv, tx_dict, rx_dict, threads>>

TransferGenerateSpecific(seq) ==
    LET r == generate_specific_packet(snd, seq, disk)
    IN /\ phase.step = "generate" /\ phase.mode = "specific"
       /\ seq \notin phase.requested
       /\ snd' = r.t
       /\ channel' = channel \cup ListSet(r.out)
       /\ call' = Call("generate_specific_packet", seq, r.ret, r.out, snd.state)
       /\ phase' = [phase EXCEPT !.requested = @ \cup {seq}]
       /\ UNCHANGED <<disk, rcv, tx_dict, rx_dict, threads>>

TransferDeliver(frame) ==
    LET r == add_fragment(rcv, UnpackFragment(frame))
    IN /\ frame \in channel
       /\ rcv' = r.t
       /\ channel' = channel \ {frame}
       /\ call' = Call("add_fragment", UnpackFragment(frame).seq_number, r.ret, <<>>, rcv.state)
       /\ UNCHANGED <<disk, snd, phase, tx_dict, rx_dict, threads>>

TransferWriteFile ==
    LET r == write_file(rcv, disk)
    IN /\ phase.step # "done"
       /\ phase.requested = 0..(snd.number_of_packets[1] - 1)
       /\ channel = {}
       /\ rcv' = r.t
       /\ disk' = r.disk
       /\ call' = Call("write_file", -1, r.ret, <<>>, rcv.state)
       /\ phase' = [phase EXCEPT !.step = "done"]
       /\ UNCHANGED <<snd, channel, tx_dict, rx_dict, threads>>

NextTransfer ==
    \/ TransferGenerateAll
    \/ \E seq \in 0..(snd.number_of_packets[1] - 1) : TransferGenerateSpecific(seq)
    \/ \E frame \in channel : TransferDeliver(frame)
    \/ TransferWriteFile

SpecTransfer == InitTransfer /\ [][NextTransfer]_vars

(***************************************************************************)
(* SpecMgr: the transaction manager under every sequence of its calls.     *)
(* call.arg is <<tid, is_tx>> (<<tid, is_tx, file_hash>> for               *)
(* create_transaction), call.out the returned transaction (or None) and    *)
(* call.pre the two dictionaries as they were before the call.             *)
(***************************************************************************)
\* explicit tids: the ends of the range 0..MAX_TRANSACTIONS-1 and one value beyond it
MgrTids == {0, MAX_TRANSACTIONS - 1, MAX_TRANSACTIONS}
TidArgs == {None} \cup {Some(k) : k \in MgrTids}
IsTxArgs == {None, Some(TRUE), Some(FALSE)}
\* the file_hash argument: left out, or a digest handed in by the caller
HashArgs == {None, Some(calculate_hash(<<>>))}
Dicts == [tx |-> tx_dict, rx |-> rx_dict]

InitMgr ==
    /\ disk = [p \in {"src", "dst"} |->
                 IF p = "src" THEN Some([i \in 1..MaxFileLen |-> 0]) ELSE None]
    /\ snd = Transaction(0, None, None, None, FALSE, disk)
    /\ rcv = Transaction(0, None, None, None, FALSE, disk)
    /\ channel = NoChannel
    /\ call = Call("init", <<None, None>>, "None", None, [tx |-> <<>>, rx |-> <<>>])
    /\ phase = Idle
    /\ NoManager

\* the sender registers its source file, the receiver names its destination
MgrCreate(tid, is_tx, file_hash) ==
    LET file_path == IF IsTx(is_tx) THEN Some("src") ELSE Some("dst")
        r == create_transaction(tx_dict, rx_dict, tid, file_path, file_hash, None, is_tx, disk)
    IN /\ tx_dict' = r.tx
       /\ rx_dict' = r.rx
       /\ call' = Call("create_transaction", <<tid, is_tx, file_hash>>,
                       IF r.ret = None THEN "None" ELSE "transaction", r.ret, Dicts)
       /\ UNCHANGED <<disk, snd, rcv, channel, phase, threads>>

MgrGetTidNumber ==
    LET r == get_tid_number(tx_dict, rx_dict, disk)
    IN /\ tx_dict' = r.tx
       /\ rx_dict' = r.rx
       /\ call' = Call("get_tid_number", <<None, Some(TRUE)>>,
                       IF r.ret = None THEN "None" ELSE "int", r.ret, Dicts)
       /\ UNCHANGED <<disk, snd, rcv, channel, phase, threads>>

MgrGet(tid, is_tx) ==
    LET r == get_transaction(tx_dict, rx_dict, tid, is_tx)
    IN /\ call' = Call("get_transaction", <<Some(tid), is_tx>>,
                       IF r = None THEN "None" ELSE "transaction", r, Dicts)
       /\ UNCHANGED <<disk, snd, rcv, channel, phase, tx_dict, rx_dict, threads>>

MgrDelete(tid, is_tx) ==
    LET r == delete_transaction(tx_dict, rx_dict, tid, is_tx)
    IN /\ tx_dict' = r.tx
       /\ rx_dict' = r.rx
       /\ call' = Call("delete_transaction", <<Some(tid), is_tx>>, r.ret, None, Dicts)
       /\ UNCHANGED <<disk, snd, rcv, channel, phase, threads>>

MgrClearFailed(is_tx) ==
    LET r == clear_failed_transactions(tx_dict, rx_dict, is_tx)
    IN /\ tx_dict' = r.tx
       /\ rx_dict' = r.rx
       /\ call' = Call("clear_failed_transactions", <<None, is_tx>>, "int", Some(r.ret), Dicts)
       /\ UNCHANGED <<disk, snd, rcv, channel, phase, threads>>

\* a registered transaction fails (write_file on a hash mismatch)
MgrFail(tid, is_tx) ==
    /\ tid \in DOMAIN (IF is_tx THEN tx_dict ELSE rx_dict)
    /\ tx_dict' = IF is_tx THEN DictPut(tx_dict, tid, change_state(tx_dict[tid], FAILED))
                  ELSE tx_dict
    /\ rx_dict' = IF is_tx THEN rx_dict
                  ELSE DictPut(rx_dict, tid, change_state(rx_dict[tid], FAILED))
    /\ call' = Call("change_state", <<Some(tid), Some(is_tx)>>, "None", None, Dicts)
    /\ UNCHANGED <<disk, snd, rcv, channel, phase, threads>>

NextMgr ==
    \/ \E tid \in TidArgs, is_tx \in IsTxArgs, file_hash \in HashArgs :
          MgrCreate(tid, is_tx, file_hash)
    \/ MgrGetTidNumber
    \/ \E tid \in MgrTids, is_tx \in IsTxArgs : MgrGet(tid, is_tx)
    \/ \E tid \in MgrTids, is_tx \in IsTxArgs : MgrDelete(tid, is_tx)
    \/ \E is_tx \in IsTxArgs : MgrClearFailed(is_tx)
    \/ \E tid \in MgrTids, is_tx \in BOOLEAN : MgrFail(tid, is_tx)

SpecMgr == InitMgr /\ [][NextMgr]_vars


(***************************************************************************)
(* SpecConc: two threads (the servers start one per connection) inside     *)
(* create_transaction on its allocating path, interleaved statement by     *)
(* statement: the manager takes no lock.  A thread record holds the        *)
(* position of the thread in the call, the tid it computed and the         *)
(* transaction the call returned.                                          *)
(***************************************************************************)
Threads == {1, 2}
ThreadPath(i) == IF i = 1 THEN Some("src") ELSE Some("dst")
IdleThread == [pc |-> "idle", tid |-> None, ret |-> None]

InitConc ==
    /\ disk = [p \in {"src", "dst"} |-> None]
    /\ snd = Transaction(0, None, None, None, FALSE, disk)
    /\ rcv = Transaction(0, None, None, None, FALSE, disk)
    /\ channel = NoChannel
    /\ call = Call("init", <<None, None>>, "None", None, [tx |-> <<>>, rx |-> <<>>])
    /\ phase = Idle
    /\ tx_dict = <<>>
    /\ rx_dict = <<>>
    /\ threads = [i \in Threads |-> IdleThread]

\* the capacity test and tid = min(...) of the allocating path
ConcAllocate(i) ==
    /\ threads[i].pc = "idle"
    /\ threads' = [threads EXCEPT ![i] =
          IF Cardinality(DOMAIN rx_dict) >= MAX_TRANSACTIONS
          THEN [pc |-> "returned", tid |-> None, ret |-> None]
          ELSE [pc |-> "allocated", tid |-> Some(SmallestUnused(rx_dict)), ret |-> None]]
    /\ UNCHANGED <<disk, snd, rcv, channel, call, phase, tx_dict, rx_dict>>

\* if tid in target_dict: del target_dict[tid]
ConcOverwrite(i) ==
    /\ threads[i].pc = "allocated"
    /\ rx_dict' = IF threads[i].tid[1] \in DOMAIN rx_dict
                  THEN DictDel(rx_dict, threads[i].tid[1])
                  ELSE rx_dict
    /\ threads' = [threads EXCEPT ![i].pc = "checked"]
    /\ UNCHANGED <<disk, snd, rcv, channel, call, phase, tx_dict>>

\* trans = Transaction(...); target_dict[tid] = trans; return trans
ConcRegister(i) ==
    LET trans == Transaction(threads[i].tid[1], ThreadPath(i), None, None, FALSE, disk)
    IN /\ threads[i].pc = "checked"
       /\ rx_dict' = DictPut(rx_dict, threads[i].tid[1], trans)
       /\ threads' = [threads EXCEPT ![i].pc = "returned", ![i].ret = Some(trans)]
       /\ UNCHANGED <<disk, snd, rcv, channel, call, phase, tx_dict>>

\* the caller is done with the result: it keeps the transaction registered
\* or deletes it (delete_transaction(tid, is_tx=False))
ConcFinish(i, keep) ==
    /\ threads[i].pc = "returned"
    /\ rx_dict' = IF keep \/ threads[i].ret = None
                  THEN rx_dict
                  ELSE delete_transaction(tx_dict, rx_dict, threads[i].tid[1], Some(FALSE)).rx
    /\ threads' = [threads EXCEPT ![i] = IdleThread]
    /\ UNCHANGED <<disk, snd, rcv, channel, call, phase, tx_dict>>

NextConc ==
    \/ \E i \in Threads : ConcAllocate(i)
    \/ \E i \in Threads : ConcOverwrite(i)
    \/ \E i \in Threads : ConcRegister(i)
    \/ \E i \in Threads, keep \in BOOLEAN : ConcFinish(i, keep)

SpecConc == InitConc /\ [][NextConc]_vars

(***************************************************************************)
(* SpecBitmap: two peers' transactions for the same fragment count.  The   *)
(* receiver stores fragments; the sender's missing list is overwritten by  *)
(* the peer; either transaction applies its own bitmaps to itself, and the *)
(* sender applies the receiver's.  call.out holds the bitmap entries and   *)
(* call.pre the missing list of the updated transaction before the call.   *)
(***************************************************************************)
MaxFrags == 3

\* the lists the peer sends: empty, one number, or two numbers that are
\* equal or in descending order
BitmapLists ==
    {<<>>} \cup {<<a>> : a \in 0..MaxFrags}
           \cup UNION {{<<a, b>> : b \in 0..a} : a \in 0..MaxFrags}

InitBitmap ==
    /\ disk = [p \in {"src", "dst"} |-> IF p = "src" THEN Some(<<>>) ELSE None]
    /\ \E n \in {None} \cup {Some(k) : k \in 0..MaxFrags} :
          /\ snd = Transaction(5, None, None, n, FALSE, disk)
          /\ rcv = Transaction(5, Some("dst"), None, n, FALSE, disk)
    /\ channel = NoChannel
    /\ call = Call("init", -1, "None", <<>>, <<>>)
    /\ phase = Idle
    /\ NoManager

BitmapAddFragment(seq) ==
    LET r == add_fragment(rcv, [tid |-> rcv.tid, seq_number |-> seq, payload |-> <<0>>])
    IN /\ rcv' = r.t
       /\ call' = Call("add_fragment", seq, r.ret, <<>>, rcv.missing_fragments)
       /\ UNCHANGED <<disk, snd, channel, phase, tx_dict, rx_dict, threads>>

BitmapOverwriteMissing(l) ==
    /\ snd' = overwrite_missing_fragments(snd, l)
    /\ call' = Call("overwrite_missing_fragments", -1, "None", <<>>, snd.missing_fragments)
    /\ UNCHANGED <<disk, rcv, channel, phase, tx_dict, rx_dict, threads>>

\* update_missing_fragments_bitmap on every entry of the transaction's own
\* generate_missing_bitmaps(max_bits)
BitmapSelfSyncSender(max_bits) ==
    LET bitmap_list == generate_missing_bitmaps(snd, max_bits)
    IN /\ snd' = ApplyBitmaps(snd, bitmap_list, max_bits)
       /\ call' = Call("self_sync_sender", max_bits, "None", bitmap_list, snd.missing_fragments)
       /\ UNCHANGED <<disk, rcv, channel, phase, tx_dict, rx_dict, threads>>

BitmapSelfSyncReceiver(max_bits) ==
    LET bitmap_list == generate_missing_bitmaps(rcv, max_bits)
    IN /\ rcv' = ApplyBitmaps(rcv, bitmap_list, max_bits)
       /\ call' = Call("self_sync_receiver", max_bits, "None", bitmap_list, rcv.missing_fragments)
       /\ UNCHANGED <<disk, snd, channel, phase, tx_dict, rx_dict, threads>>

\* the receiver's bitmaps, with the default max_bits, applied by the sender
BitmapPeerSync ==
    LET bitmap_list == generate_missing_bitmaps(rcv, MAX_BITS)
    IN /\ snd' = ApplyBitmaps(snd, bitmap_list, MAX_BITS)
       /\ call' = Call("peer_sync", MAX_BITS, "None", bitmap_list, snd.missing_fragments)
       /\ UNCHANGED <<disk, rcv, channel, phase, tx_dict, rx_dict, threads>>

NextBitmap ==
    \/ \E seq \in 0..MaxFrags : BitmapAddFragment(seq)
    \/ \E l \in BitmapLists : BitmapOverwriteMissing(l)
    \/ \E max_bits \in 1..MAX_BITS : BitmapSelfSyncSender(max_bits)
    \/ \E max_bits \in 1..MAX_BITS : BitmapSelfSyncReceiver(max_bits)
    \/ BitmapPeerSync

SpecBitmap == InitBitmap /\ [][NextBitmap]_vars

(***************************************************************************)
(* SpecHash: the sender's hash, absent or a digest, is turned into three   *)
(* integers (as for INIT_TRANS) and a fresh receiver sets its hash from    *)
(* them.  channel holds the integers in flight.                            *)
(***************************************************************************)
\* the first and last byte of each of the three parts of a digest
HashPositions == {1, 8, 9, 16, 17, 20}

\* digests that are zero except for one byte value at some of those places
Digests ==
    {[i \in 1..DIGEST_SIZE |-> IF i \in S THEN v ELSE 0] :
        S \in SUBSET HashPositions, v \in {1, 255}}

InitHash ==
    /\ disk = [p \in {"src", "dst"} |-> IF p = "src" THEN Some(<<>>) ELSE None]
    /\ \E h \in {None} \cup {Some(x) : x \in Digests} :
          snd = [Transaction(5, Some("src"), None, None, TRUE, disk) EXCEPT !.file_hash = h]
    /\ rcv = Transaction(5, Some("dst"), None, Some(0), FALSE, disk)
    /\ channel = NoChannel
    /\ call = Call("init", -1, "None", <<>>, REQUESTED)
    /\ phase = Idle
    /\ NoManager

HashGetAsIntegers ==
    /\ channel' = {get_hash_as_integers(snd)}
    /\ call' = Call("get_hash_as_integers", -1, "tuple", <<>>, snd.state)
    /\ UNCHANGED <<disk, snd, rcv, phase, tx_dict, rx_dict, threads>>

HashSetFromIntegers ==
    \E m \in channel :
       LET r == set_hash_from_integers(rcv, m[1], m[2], m[3])
       IN /\ rcv' = r.t
          /\ call' = Call("set_hash_from_integers", -1, r.ret, <<>>, rcv.state)
          /\ UNCHANGED <<disk, snd, channel, phase, tx_dict, rx_dict, threads>>

NextHash ==
    \/ HashGetAsIntegers
    \/ HashSetFromIntegers

SpecHash == InitHash /\ [][NextHash]_vars

(***************************************************************************)
(* SpecCodec: frames arrive one record at a time and are handed to unpack. *)
(* A frame is any byte string (every message type, with the other header   *)
(* bits clear or set) or the frame of a fragment as the sender emits it.   *)
(* call.arg is the fragment packed or the frame unpacked; for unpack,      *)
(* call.pre is the operation and argument that produced the frame.         *)
(***************************************************************************)
HeaderLow == {0, 2 ^ (8 - MSG_TYPE_SIZE) - 1}
FirstBytes == {t * 2 ^ (8 - MSG_TYPE_SIZE) + low : t \in 0..(2 ^ MSG_TYPE_SIZE - 1),
                                                  low \in HeaderLow}
CodecFrames ==
    {<<>>} \cup {<<b>> \o rest : b \in FirstBytes, rest \in BytesUpTo(MAX_PACKET_SIZE)}

\* sequence numbers around the byte boundaries of the 13-bit field
FragmentSeqs == {0, 7, 8, 2047, 2048, 8191}
Fragments ==
    [tid : 0..7, seq_number : FragmentSeqs, payload : BytesUpTo(MAX_PACKET_SIZE)]

InitCodec ==
    /\ disk = [p \in {"src", "dst"} |-> None]
    /\ snd = Transaction(0, None, None, None, FALSE, disk)
    /\ rcv = Transaction(0, None, None, None, FALSE, disk)
    /\ channel = NoChannel
    /\ call = Call("init", <<>>, "None", None, <<>>)
    /\ phase = Idle
    /\ NoManager

\* frag = Fragment(tid, seq); frag.add_payload(data); pack(frag)
CodecPackFragment(f) ==
    /\ channel = NoChannel
    /\ channel' = {PackFragment(f.tid, f.seq_number, f.payload)}
    /\ call' = Call("pack", f, "bytes", None, <<>>)
    /\ UNCHANGED <<disk, snd, rcv, phase, tx_dict, rx_dict, threads>>

\* any other record the stream delivers
CodecReceive(frame) ==
    /\ channel = NoChannel
    /\ channel' = {frame}
    /\ call' = Call("recv", frame, "bytes", None, <<>>)
    /\ UNCHANGED <<disk, snd, rcv, phase, tx_dict, rx_dict, threads>>

CodecUnpack(frame) ==
    /\ frame \in channel
    /\ channel' = channel \ {frame}
    /\ call' = Call("unpack", frame, unpack(frame), None, <<call.op, call.arg>>)
    /\ UNCHANGED <<disk, snd, rcv, phase, tx_dict, rx_dict, threads>>

NextCodec ==
    \/ \E f \in Fragments : CodecPackFragment(f)
    \/ \E frame \in CodecFrames : CodecReceive(frame)
    \/ \E frame \in channel : CodecUnpack(frame)

SpecCodec == InitCodec /\ [][NextCodec]_vars

(***************************************************************************)
(* SpecIds: peers import the definition module, each with the tables       *)
(* declared in an order of its own.  call.arg is the declaration order of  *)
(* the peer, call.out the identifiers it derives and call.pre those the    *)
(* peer before it derived.                                                 *)
(***************************************************************************)
Orderings(l) ==
    {p \in [1..Len(l) -> ListSet(l)] : \A i, j \in 1..Len(l) : p[i] = p[j] => i = j}

DerivedIds(cl, rd) == [COMMAND_IDS |-> COMMAND_IDS(cl), REPORT_IDS |-> REPORT_IDS(rd)]

InitIds ==
    /\ disk = [p \in {"src", "dst"} |-> None]
    /\ snd = Transaction(0, None, None, None, FALSE, disk)
    /\ rcv = Transaction(0, None, None, None, FALSE, disk)
    /\ channel = NoChannel
    /\ call = Call("import", <<command_list, report_dict>>, "None",
                   DerivedIds(command_list, report_dict),
                   DerivedIds(command_list, report_dict))
    /\ phase = Idle
    /\ NoManager

IdsImport(cl, rd) ==
    /\ call' = Call("import", <<cl, rd>>, "None", DerivedIds(cl, rd), call.out)
    /\ UNCHANGED <<disk, snd, rcv, channel, phase, tx_dict, rx_dict, threads>>

NextIds ==
    \E cl \in Orderings(command_list), rd \in Orderings(report_dict) : IdsImport(cl, rd)

SpecIds == InitIds /\ [][NextIds]_vars

(***************************************************************************)
(* SpecReport: the report TM_TEST, declared in any order of its variables  *)
(* (phase.decl), is filled on one side (snd), packed, and unpacked on the  *)
(* other side (rcv).                                                       *)
(***************************************************************************)
ValuesOf(t) == IF t = "B" THEN {1, 255} ELSE {256, 65537}

InitReport ==
    /\ disk = [p \in {"src", "dst"} |-> None]
    /\ \E decl \in Orderings(TM_TEST) :
          /\ phase = [step |-> "build", decl |-> decl]
          /\ snd = Report("TM_TEST", decl)
          /\ rcv = Report("TM_TEST", decl)
    /\ channel = NoChannel
    /\ call = Call("Report", -1, "None", <<>>, -1)
    /\ NoManager

ReportAddVariable(i, value) ==
    /\ phase.step = "build"
    /\ snd' = add_variable(snd, phase.decl[i][1], phase.decl[i][2], value)
    /\ call' = Call("add_variable", i, "None", <<>>, -1)
    /\ UNCHANGED <<disk, rcv, channel, phase, tx_dict, rx_dict, threads>>

ReportPack ==
    /\ phase.step = "build"
    /\ channel' = {pack_report(snd, phase.decl)}
    /\ phase' = [phase EXCEPT !.step = "sent"]
    /\ call' = Call("pack_report", -1, "bytes", <<>>, -1)
    /\ UNCHANGED <<disk, snd, rcv, tx_dict, rx_dict, threads>>

ReportUnpack(frame) ==
    /\ frame \in channel
    /\ unpack_report(frame, phase.decl) # None
    /\ rcv' = unpack_report(frame, phase.decl)[1]
    /\ channel' = channel \ {frame}
    /\ phase' = [phase EXCEPT !.step = "done"]
    /\ call' = Call("unpack_report", -1, "Report", <<>>, -1)
    /\ UNCHANGED <<disk, snd, tx_dict, rx_dict, threads>>

NextReport ==
    \/ \E i \in 1..Len(TM_TEST) :
          \E value \in ValuesOf(var_dict[phase.decl[i][1]][2]) : ReportAddVariable(i, value)
    \/ ReportPack
    \/ \E frame \in channel : ReportUnpack(frame)

SpecReport == InitReport /\ [][NextReport]_vars

(***************************************************************************)
(* SpecCommand: command frames with any 13-bit id around the end of the    *)
(* command list and payloads of every length up to one byte more than the  *)
(* longest command are handed to unpack_command.  call.arg is the frame.   *)
(***************************************************************************)
CommandIdArgs == 0..(Len(command_list) + 2) \cup {2 ^ COMMAND_ID_SIZE - 2, 2 ^ COMMAND_ID_SIZE - 1}
PayloadLens == 0..(FormatSize(command_args.INIT_TRANS) + 1)
CommandFrames ==
    {<<MSG_TYPE_DICT.commands * 32 + id \div 256, id % 256>> \o [i \in 1..n |-> b] :
        id \in CommandIdArgs, n \in PayloadLens, b \in {0, 255}}

InitCommand ==
    /\ disk = [p \in {"src", "dst"} |-> None]
    /\ snd = Transaction(0, None, None, None, FALSE, disk)
    /\ rcv = Transaction(0, None, None, None, FALSE, disk)
    /\ channel = NoChannel
    /\ call = Call("init", <<>>, "None", None, -1)
    /\ phase = Idle
    /\ NoManager

CommandUnpack(frame) ==
    LET r == unpack_command(frame, command_list)
    IN /\ call' = Call("unpack_command", frame, r.ret, r.c, -1)
       /\ UNCHANGED <<disk, snd, rcv, channel, phase, tx_dict, rx_dict, threads>>

NextCommand == \E frame \in CommandFrames : CommandUnpack(frame)

SpecCommand == InitCommand /\ [][NextCommand]_vars

(***************************************************************************)
(* SpecHandshake: the sender holds a transaction for its file (its hash    *)
(* absent or the digest of the file) and answers CREATE_TRANS by building  *)
(* INIT_TRANS as the server does; INIT_TRANS frames with the arguments the *)
(* command list declares arrive at the receiver, which processes them as   *)
(* the client does.  channel holds the frame in flight.                    *)
(***************************************************************************)
\* server.py process_command, CREATE_TRANS: Command("INIT_TRANS"), the two
\* set_arguments calls and pack
BuildInitTrans(t) ==
    LET h  == get_hash_as_integers(t)
        r1 == set_arguments(Command("INIT_TRANS", command_list),
                            << <<"tid", Some(IntDigits(t.tid))>>,
                               <<"number_of_packets", Some(IntDigits(t.number_of_packets[1]))>> >>)
        r2 == set_arguments(r1.c,
                            << <<"hash_MSB", Some(h[1])>>,
                               <<"hash_middlesb", Some(h[2])>>,
                               <<"hash_LSB", Some(h[3])>> >>)
    IN IF r1.ret # "None" THEN [ret |-> r1.ret, frame |-> <<>>]
       ELSE IF r2.ret # "None" THEN [ret |-> r2.ret, frame |-> <<>>]
       ELSE pack_command(r2.c)

\* client.py process_command, INIT_TRANS: the three hash arguments are read
\* with get_argument and turned into bytes, then the transaction is created
ProcessInitTrans(cmd, d) ==
    LET tid == ArgumentGet(cmd, "tid")
        n == ArgumentGet(cmd, "number_of_packets")
        hash_MSB == ArgumentGet(cmd, "hash_MSB")
        hash_middlesb == ArgumentGet(cmd, "hash_middlesb")
        hash_LSB == ArgumentGet(cmd, "hash_LSB")
    IN IF hash_MSB = None \/ hash_middlesb = None \/ hash_LSB = None
       THEN [ret |-> "AttributeError", t |-> None]
       ELSE IF Len(hash_MSB[1]) > 8 \/ Len(hash_middlesb[1]) > 8 \/ Len(hash_LSB[1]) > 4
       THEN [ret |-> "OverflowError", t |-> None]
       ELSE [ret |-> "None",
             t   |-> Some(Transaction(StructUnpack(tid[1]), None,
                                      Some(ToBytes(hash_MSB[1], 8) \o ToBytes(hash_middlesb[1], 8)
                                           \o ToBytes(hash_LSB[1], 4)),
                                      Some(StructUnpack(n[1])), FALSE, d))]

\* INIT_TRANS frames carrying the four arguments of the command list
InitTransFrames ==
    {pack_command(set_arguments(Command("INIT_TRANS", command_list),
                                << <<"tid", Some(IntDigits(tid))>>,
                                   <<"number_of_packets", Some(IntDigits(n))>>,
                                   <<"hash_MSB", Some(msb)>>,
                                   <<"hash_LSB", Some(lsb)>> >>).c).frame :
        tid \in Tids, n \in 0..MaxN, msb \in {<<>>, <<1>>}, lsb \in {<<>>, <<255>>}}

InitHandshake ==
    /\ \E f \in TxFiles :
          disk = [p \in {"src", "dst"} |-> IF p = "src" THEN Some(f) ELSE None]
    /\ \E tid \in Tids, with_hash \in BOOLEAN :
          LET s == Transaction(tid, Some("src"), None, None, TRUE, disk)
          IN snd = IF with_hash
                   THEN [s EXCEPT !.file_hash = calculate_file_hash(s, disk)]
                   ELSE s
    /\ rcv = Transaction(0, None, None, None, FALSE, disk)
    /\ channel = NoChannel
    /\ call = Call("init", <<>>, "None", <<>>, -1)
    /\ phase = Idle
    /\ NoManager

HandshakeInitTrans ==
    LET r == BuildInitTrans(snd)
    IN /\ channel' = IF r.ret = "bytes" THEN {r.frame} ELSE channel
       /\ call' = Call("INIT_TRANS", <<>>, r.ret, r.frame, -1)
       /\ UNCHANGED <<disk, snd, rcv, phase, tx_dict, rx_dict, threads>>

HandshakeArrive(frame) ==
    /\ channel' = {frame}
    /\ call' = Call("recv", frame, "bytes", <<>>, -1)
    /\ UNCHANGED <<disk, snd, rcv, phase, tx_dict, rx_dict, threads>>

HandshakeProcess(frame) ==
    LET u == unpack_command(frame, command_list)
        r == ProcessInitTrans(u.c[1], disk)
    IN /\ frame \in channel
       /\ u.ret = "Command"
       /\ rcv' = IF r.t = None THEN rcv ELSE r.t[1]
       /\ channel' = channel \ {frame}
       /\ call' = Call("process_command", frame, r.ret, <<>>, -1)
       /\ UNCHANGED <<disk, snd, phase, tx_dict, rx_dict, threads>>

NextHandshake ==
    \/ HandshakeInitTrans
    \/ \E frame \in InitTransFrames : HandshakeArrive(frame)
    \/ \E frame \in channel : HandshakeProcess(frame)

SpecHandshake == InitHandshake /\ [][NextHandshake]_vars

(***************************************************************************)
(* Properties                                                              *)
(***************************************************************************)
RxN == rcv.number_of_packets[1]
RxKeys == DOMAIN rcv.fragment_dict
RxKnowsN == rcv.number_of_packets # None
GenerateOps == {"generate_all_packets", "generate_x_packets", "generate_specific_packet"}

C2_CompletedOnLastFragment ==
    (/\ call.op = "add_fragment"
     /\ RxKnowsN
     /\ RxN >= 1
     /\ RxKeys \subseteq 0..(RxN - 1))
    => (rcv.state = COMPLETED <=> RxKeys = 0..(RxN - 1))

C2_Witness ==
    /\ call.op = "add_fragment"
    /\ call.arg = 0
    /\ RxKnowsN
    /\ RxN = 2
    /\ RxKeys = {0, 1}
    /\ rcv.state = COMPLETED
    /\ call.pre = RECEIVING

\* C3 (Invariant D): an add_fragment that moves the transaction into
\* COMPLETED leaves as many stored keys as number_of_fragments and an empty
\* missing_fragments.
C3_InvariantD ==
    (/\ call.op = "add_fragment"
     /\ call.pre # COMPLETED
     /\ rcv.state = COMPLETED)
    => (/\ RxKnowsN
        /\ Cardinality(RxKeys) = RxN
        /\ rcv.missing_fragments = <<>>)

\* C4 (Invariant C): no sequence number is both in missing_fragments and a
\* key of the received-fragment map.
C4_InvariantC ==
    ListSet(rcv.missing_fragments) \cap RxKeys = {}

\* C5, as claimed: add_fragment returns true exactly when the state before
\* the call was not COMPLETED and the state after it is COMPLETED.
C5_TrueIffTransitioned ==
    call.op = "add_fragment" =>
        (call.ret = "True" <=> (call.pre # COMPLETED /\ rcv.state = COMPLETED))

\* C5, amended: add_fragment returns true exactly when the state after the
\* call is COMPLETED, that is when the number of stored keys equals
\* number_of_fragments after the call, whatever the state before.
C5_TrueIffCompletedAfter ==
    call.op = "add_fragment" =>
        /\ call.ret = "True" <=> rcv.state = COMPLETED
        /\ call.ret = "True" <=> (RxKnowsN /\ Cardinality(RxKeys) = RxN)

C5_Witness ==
    /\ call.op = "add_fragment"
    /\ call.pre = COMPLETED
    /\ call.ret = "True"
    /\ rcv.state = COMPLETED

\* C6: add_fragment and write_file never move the lifecycle backwards: from
\* COMPLETED only to SUCCESS or FAILED, and SUCCESS and FAILED are kept.
C6_LifecycleForward ==
    call.op \in {"add_fragment", "write_file"} =>
        /\ call.pre = COMPLETED => rcv.state \in {COMPLETED, SUCCESS, FAILED}
        /\ call.pre \in {SUCCESS, FAILED} => rcv.state = call.pre

\* C7: after a generate_all_packets, generate_x_packets or
\* generate_specific_packet call that emitted at least one fragment, the
\* sender is in SENDING.
C7_SendingAfterGenerate ==
    (call.op \in GenerateOps /\ call.out # <<>>) => snd.state = SENDING

C10_FailedAfterMissingFragment ==
    (/\ call.op = "write_file"
     /\ RxKnowsN
     /\ Holes(rcv) # {})
    => rcv.state = FAILED

(***************************************************************************)
(* C11: a transaction whose fragment count is 0 (given to the constructor  *)
(* or set by set_number_packets) is COMPLETED right after that             *)
(* initialisation, with no add_fragment call.                              *)
(***************************************************************************)
C11_ZeroFragmentsCompleted ==
    (call.op \in {"init", "set_number_packets"} /\ rcv.number_of_packets = Some(0))
    => rcv.state = COMPLETED

(***************************************************************************)
(* Transaction manager (SpecMgr)                                           *)
(***************************************************************************)
CreateCall == call.op = "create_transaction"
CallTid == call.arg[1]
CallIsTx == call.arg[2]

\* C12: create_transaction on the TX side without a tid, while the TX map
\* has room, returns a transaction whose tid is the smallest id of
\* 0..MAX_TRANSACTIONS-1 that was not a key of the TX map, registered under
\* that tid.
C12_TxAllocatesSmallestUnused ==
    (CreateCall /\ CallTid = None /\ CallIsTx = Some(TRUE)
       /\ Cardinality(DOMAIN call.pre.tx) < MAX_TRANSACTIONS)
    => /\ call.out # None
       /\ call.out[1].tid = SmallestUnused(call.pre.tx)
       /\ DictGet(tx_dict, call.out[1].tid) = call.out

\* C13: create_transaction on the RX side without a tid creates nothing:
\* it returns None and leaves both maps as they were.
C13_RxRequiresTid ==
    (CreateCall /\ CallTid = None /\ CallIsTx = Some(FALSE))
    => (call.out = None /\ Dicts = call.pre)

\* C14: each map holds at most MAX_TRANSACTIONS entries in every reachable
\* state, and a create_transaction on a full map that would add a key
\* returns None and leaves the maps unchanged.
C14_MapsBounded ==
    /\ Cardinality(DOMAIN tx_dict) <= MAX_TRANSACTIONS
    /\ Cardinality(DOMAIN rx_dict) <= MAX_TRANSACTIONS
    /\ \A side \in {"tx", "rx"} :
          (CreateCall /\ IsTx(CallIsTx) = (side = "tx") /\ CallTid # None
             /\ Cardinality(DOMAIN call.pre[side]) >= MAX_TRANSACTIONS
             /\ CallTid[1] \notin DOMAIN call.pre[side])
          => (call.out = None /\ Dicts = call.pre)

C16_RxTidAlreadyInUse ==
    (CreateCall /\ CallTid # None /\ CallIsTx = Some(FALSE)
       /\ CallTid[1] \in DOMAIN call.pre.rx)
    => (call.out = None /\ rx_dict = call.pre.rx)

\* C17: delete_transaction(tid) without a direction returns True exactly
\* when tid was a key of the TX or the RX map, and after it returned True
\* get_transaction(tid) finds nothing (so a second delete returns False),
\* also when both maps held tid.
C17_DeleteWithoutDirection ==
    (call.op = "delete_transaction" /\ CallIsTx = None)
    => /\ (call.ret = "True") <=>
             (CallTid[1] \in (DOMAIN call.pre.tx) \cup (DOMAIN call.pre.rx))
       /\ (call.ret = "True") =>
             get_transaction(tx_dict, rx_dict, CallTid[1], None) = None

(***************************************************************************)
(* Concurrent calls (SpecConc)                                             *)
(***************************************************************************)
Returned(i) == threads[i].pc = "returned" /\ threads[i].ret # None

\* C18: two create_transaction calls that each allocated a tid and have
\* both returned hold different tids, and each returned transaction is the
\* one registered under its tid.
C18_ConcurrentCreatesSerialised ==
    \A i \in Threads, j \in Threads :
       (i # j /\ Returned(i) /\ Returned(j))
       => /\ threads[i].ret[1].tid # threads[j].ret[1].tid
          /\ DictGet(rx_dict, threads[i].ret[1].tid) = threads[i].ret

(***************************************************************************)
(* Packet generation (SpecTx)                                              *)
(***************************************************************************)
\* C19: every call of generate_all_packets returns exactly one packed
\* fragment per entry of missing_fragments as it stands at that call, and
\* none when the missing set is empty.
C19_GenerateAllOnePerMissing ==
    call.op = "generate_all_packets" => Len(call.out) = Len(snd.missing_fragments)

\* C20: generate_x_packets(n) returns a list of min(n, |missing|) packed
\* fragments for every n >= 0 and every missing set, without raising.
C20_GenerateXReturnsMin ==
    call.op = "generate_x_packets"
    => /\ call.ret = "list"
       /\ Len(call.out) = Min2(call.arg, Len(snd.missing_fragments))

(***************************************************************************)
(* Sender bookkeeping (SpecTx, SpecSync)                                   *)
(***************************************************************************)
\* the sequence numbers carried by a list of packed fragments, in order
SeqNumbers(packets) == [k \in 1..Len(packets) |-> UnpackFragment(packets[k]).seq_number]

\* C21: generate_all_packets and generate_x_packets leave missing_fragments
\* unchanged, and after either call last_batch is the list of the sequence
\* numbers of the fragments that call produced, in that order: the packets
\* generate_x_packets returns, and the packets generate_all_packets has
\* added to the list it returns.
C21_GenerateFrameEffect ==
    [][/\ TxGenerateAll
          => /\ snd'.missing_fragments = snd.missing_fragments
             /\ snd'.last_batch =
                   SeqNumbers(Slice(call'.out, Len(snd.packet_list), Len(call'.out)))
       /\ (\E x \in 0..(MaxSeq + 1) : TxGenerateX(x))
          => /\ snd'.missing_fragments = snd.missing_fragments
             /\ snd'.last_batch = SeqNumbers(call'.out)]_vars

C23_AddReceivedListRemovesListed ==
    [][call'.op = "add_received_list"
       => \A l \in SeqPairs :
             TxAddReceivedList(l)
             => ListSet(snd'.missing_fragments)
                   = ListSet(snd.missing_fragments) \ ListSet(l)]_vars

(***************************************************************************)
(* Bitmap synchronisation (SpecBitmap)                                     *)
(***************************************************************************)
SelfSyncOps == {"self_sync_sender", "self_sync_receiver"}
Synced == IF call.op = "self_sync_receiver" THEN rcv ELSE snd

\* C24 (Invariant F): a transaction that has applied to itself every entry
\* of its own generate_missing_bitmaps(max_bits) has the missing set it had
\* before, for every fragment count and every max_bits in 1..MAX_BITS.
C24_InvariantF ==
    call.op \in SelfSyncOps => ListSet(Synced.missing_fragments) = ListSet(call.pre)

\* two windows, the last one truncated, with fragments both missing and
\* not missing and a bit in the upper half-word
C24_Witness ==
    /\ call.op \in SelfSyncOps
    /\ Len(call.out) >= 2
    /\ Synced.number_of_packets[1] % call.arg # 0
    /\ ListSet(call.pre) # {}
    /\ ListSet(call.pre) # 0..(Synced.number_of_packets[1] - 1)
    /\ \E k \in 1..Len(call.out) : call.out[k][2] # 0

\* the bitmap entries describe the receiver's missing set: one entry per
\* window of MAX_BITS, bit (w-1)-i of msb * 2^WORD_BITS + lsb set exactly
\* when fragment seq_offset + i is not missing
EntriesDescribeReceiver(bitmap_list) ==
    /\ Len(bitmap_list) = (RxN + MAX_BITS - 1) \div MAX_BITS
    /\ \A k \in 1..Len(bitmap_list) :
          LET seq_offset == (k - 1) * MAX_BITS
              w == Min2(MAX_BITS, RxN - seq_offset)
          IN /\ bitmap_list[k][1] = seq_offset
             /\ \A i \in 0..(w - 1) :
                   (Bit(bitmap_list[k][2] * WORD_MASK + bitmap_list[k][3], (w - 1) - i) = 1)
                   <=> (seq_offset + i \notin ListSet(rcv.missing_fragments))

\* C25: the entries generate_missing_bitmaps emits on the receiver describe
\* its missing set window by window, and a sender with the same fragment
\* count that has applied all of them has the receiver's missing set,
\* whatever its own missing set was before.
C25_PeerSyncEqualises ==
    (call.op = "peer_sync" /\ RxKnowsN)
    => /\ EntriesDescribeReceiver(call.out)
       /\ ListSet(snd.missing_fragments) = ListSet(rcv.missing_fragments)

\* the transaction as it was when confirm_last_batch was called, and the
\* last_batch entries whose bit (w-1)-i is 1
BeforeConfirm == call.pre
BatchConfirmed ==
    {BeforeConfirm.last_batch[i + 1] :
        i \in {j \in 0..(Len(BeforeConfirm.last_batch) - 1) :
                  Bit(call.arg, (Len(BeforeConfirm.last_batch) - 1) - j) = 1}}

\* C26: confirm_last_batch(bitmap) removes from the missing set exactly the
\* last_batch entries whose bit, indexed by position in last_batch, is 1,
\* adds nothing, clears last_batch and returns the number of sequence
\* numbers still missing; with an empty last_batch it changes nothing.
C26_ConfirmLastBatch ==
    call.op = "confirm_last_batch"
    => /\ call.ret = Cardinality(ListSet(snd.missing_fragments))
       /\ IF BeforeConfirm.last_batch = <<>>
          THEN snd = BeforeConfirm
          ELSE /\ ListSet(snd.missing_fragments) =
                     ListSet(BeforeConfirm.missing_fragments) \ BatchConfirmed
               /\ snd.last_batch = <<>>

(***************************************************************************)
(* Hash wire format (SpecHash)                                             *)
(***************************************************************************)
\* the integer with digits m (base 256, no leading zero) is the big-endian
\* value of the bytes b
IsBigEndianValue(m, b) ==
    /\ Len(m) <= Len(b)
    /\ m = <<>> \/ m[1] # 0
    /\ \A i \in 1..Len(b) :
          b[i] = IF i <= Len(b) - Len(m) THEN 0 ELSE m[i - (Len(b) - Len(m))]

C28_ConstructedHash ==
    (CreateCall /\ call.out # None)
    => /\ call.arg[3] # None => call.out[1].file_hash = call.arg[3]
       /\ (IsTx(CallIsTx) /\ call.arg[3] = None)
          => call.out[1].file_hash = Some(calculate_hash(disk["src"][1]))


(***************************************************************************)
(* Codec dispatch and fragment frames (SpecCodec)                          *)
(***************************************************************************)
UnpackCall == call.op = "unpack" /\ call.arg # <<>>
\* the top 3 bits of the first byte of the frame unpacked
FrameTag == call.arg[1] \div 32

\* C29: unpack hands a frame whose tag is report (0), variable (1),
\* command (2), response (3) or ack (6) to the decoder of that type, and
\* fails with the unknown-format error for every other tag, whatever the
\* other bits of the first byte and the remaining bytes are.
C29_UnpackDispatch ==
    UnpackCall
    => /\ FrameTag = 0 => call.ret = "unpack_report"
       /\ FrameTag = 1 => call.ret = "unpack_variable"
       /\ FrameTag = 2 => call.ret = "unpack_command"
       /\ FrameTag = 3 => call.ret = "unpack_response"
       /\ FrameTag = 6 => call.ret = "unpack_ack"
       /\ FrameTag \in {4, 5, 7} => call.ret = "ValueError"

C29_Witness ==
    /\ UnpackCall
    /\ FrameTag = 6
    /\ call.arg[1] % 32 = 31
    /\ Len(call.arg) > 1
    /\ call.ret = "unpack_ack"

\* C30: the frame packed for a fragment begins with the three header bytes
\* [tag:3][tid:3][sequence:13], and unpack of that frame yields a fragment
\* (with the tid, sequence number and payload that were packed).
C30_FragmentRoundTrip ==
    /\ \A frame \in channel :
          call.op = "pack"
          => /\ Len(frame) = 3 + Len(call.arg.payload)
             /\ frame[1] * 65536 + frame[2] * 256 + frame[3]
                   = MSG_TYPE_FRAGMENT * 2097152 + call.arg.tid * 262144
                     + call.arg.seq_number * 32
             /\ Slice(frame, 3, Len(frame)) = call.arg.payload
    /\ (call.op = "unpack" /\ call.pre[1] = "pack")
       => /\ call.ret \notin {"ValueError", "IndexError"}
          /\ UnpackFragment(call.arg) = call.pre[2]


(***************************************************************************)
(* Identifier stability (SpecIds)                                          *)
(***************************************************************************)
\* C31: a peer whose tables hold the same commands and reports in another
\* declaration order derives the same command ids and the same report ids.
C31_IdentifierStability ==
    call.op = "import" => call.out = call.pre


(***************************************************************************)
(* Canonical field order of a report frame (SpecReport)                    *)
(***************************************************************************)
DeclaredVars == {phase.decl[i] : i \in 1..Len(phase.decl)}
\* (subsystem_id, variable_id) of a declared variable
FieldKey(d) == VAR_NAME_TO_ID(d[1])
FieldSize(d) == StructSize(var_dict[d[1]][2])
FieldsBefore(d) ==
    {e \in DeclaredVars :
        FieldKey(e)[1] < FieldKey(d)[1]
        \/ (FieldKey(e)[1] = FieldKey(d)[1] /\ FieldKey(e)[2] < FieldKey(d)[2])}
RECURSIVE TotalSize(_)
TotalSize(S) ==
    IF S = {} THEN 0
    ELSE LET d == CHOOSE x \in S : TRUE IN FieldSize(d) + TotalSize(S \ {d})
\* the value the sender's report holds for a declared variable, 0 when unset
SentValue(d) ==
    IF snd.variables[<<d[2], d[1]>>] = None THEN 0 ELSE snd.variables[<<d[2], d[1]>>][1]

\* C32 (Invariant B): in the frame pack_report produces, the payload of each
\* variable of the report stands after the payloads of exactly the variables
\* with a smaller (subsystem_id, variable_id), whatever the declaration
\* order, an unset variable is written as zero, and unpack_report returns
\* every value under the variable's name.
C32_CanonicalFieldOrder ==
    /\ \A frame \in channel :
          /\ Len(frame) = 1 + TotalSize(DeclaredVars)
          /\ \A d \in DeclaredVars :
                LET at == 1 + TotalSize(FieldsBefore(d))
                IN \A i \in 1..FieldSize(d) :
                      frame[at + i]
                         = (SentValue(d) \div (256 ^ (FieldSize(d) - i))) % 256
    /\ phase.step = "done"
       => /\ rcv.name = snd.name
          /\ \A d \in DeclaredVars : rcv.variables[<<d[2], d[1]>>] = Some(SentValue(d))

\* a report declared in another order than the canonical one, with a value
\* set and a value unset, was packed and unpacked
C32_Witness ==
    /\ phase.step = "done"
    /\ ORDERED_REPORT_DICT_declared(phase.decl) # ORDERED_REPORT_DICT(phase.decl)
    /\ \E d \in DeclaredVars : snd.variables[<<d[2], d[1]>>] = None
    /\ \E d \in DeclaredVars : SentValue(d) > 255 /\ rcv.variables[<<d[2], d[1]>>] = Some(SentValue(d))


(***************************************************************************)
(* Command ids (SpecCommand)                                               *)
(***************************************************************************)
\* the 13-bit command id in the header of the frame unpacked
FrameCommandId == ((call.arg[1] % 32) * 256) + call.arg[2]

\* C33: unpack_command fails with the unknown-command-id error for every id
\* that no command of the list has (the ids from the length of the list
\* up), and yields the command for every id below, given a payload long
\* enough for its arguments.
C33_UnknownCommandId ==
    call.op = "unpack_command"
    => /\ FrameCommandId >= Len(command_list) => call.ret = "ValueError"
       /\ (/\ FrameCommandId < Len(command_list)
           /\ Len(call.arg) - 2 >= FormatSize(command_args[command_list[FrameCommandId + 1]]))
          => /\ call.ret = "Command"
             /\ call.out[1].command_id = FrameCommandId


(***************************************************************************)
(* The INIT_TRANS handshake (SpecHandshake)                                *)
(***************************************************************************)
\* C34: the sender's INIT_TRANS for its transaction is built and packed, and
\* the command decoded from the frame carries the sender's tid, its
\* fragment count and the three integers of its hash.
C34_InitTransHandshake ==
    call.op = "INIT_TRANS"
    => /\ call.ret = "bytes"
       /\ LET cmd == unpack_command(call.out, command_list).c[1]
              h == get_hash_as_integers(snd)
          IN /\ ArgumentGet(cmd, "tid") = Some(IntDigits(snd.tid))
             /\ ArgumentGet(cmd, "number_of_packets")
                   = Some(IntDigits(snd.number_of_packets[1]))
             /\ ArgumentGet(cmd, "hash_MSB") = Some(h[1])
             /\ ArgumentGet(cmd, "hash_middlesb") = Some(h[2])
             /\ ArgumentGet(cmd, "hash_LSB") = Some(h[3])


(***************************************************************************)
(* The registry (SpecMgr)                                                  *)
(***************************************************************************)
\* C35: in every reachable state every key of the TX map and of the RX map
\* is an id of 0..MAX_TRANSACTIONS-1, and the transaction stored under a key
\* has that key as its tid.
C35_RegistryInvariant ==
    /\ \A k \in DOMAIN tx_dict : k \in 0..(MAX_TRANSACTIONS - 1) /\ tx_dict[k].tid = k
    /\ \A k \in DOMAIN rx_dict : k \in 0..(MAX_TRANSACTIONS - 1) /\ rx_dict[k].tid = k


(***************************************************************************)
(* Emission order (SpecTx)                                                 *)
(***************************************************************************)
\* the fragments the last generate call produced
Emitted ==
    IF call.op = "generate_all_packets"
    THEN Slice(call.out, Len(call.out) - Len(snd.last_batch), Len(call.out))
    ELSE call.out

\* C36: the fragments a call of generate_all_packets or generate_x_packets
\* produces are in ascending order of sequence number, also after
\* overwrite_missing_fragments has installed a list that is not sorted.
C36_AscendingEmission ==
    (call.op \in {"generate_all_packets", "generate_x_packets"} /\ call.ret = "list")
    => \A i, j \in 1..Len(Emitted) :
          i < j => SeqNumbers(Emitted)[i] <= SeqNumbers(Emitted)[j]


(***************************************************************************)
(* SpecWindow: update_missing_fragments_bitmap called on the sender with   *)
(* any offset, window width and bitmap, the bitmap given as an integer or  *)
(* as an (msb, lsb) pair.  call.arg holds the three arguments and call.pre *)
(* the transaction before the call.                                        *)
(***************************************************************************)
\* a half-word with no bit, the lowest bit and every bit set
HalfWords == {0, 1, WORD_MASK - 1}

\* the offsets: negative, the first two numbers, the last number of the
\* longest file and the one past it
WindowOffsets == {-1, 0, 1, MaxFrags - 1, MaxFrags}

\* the bitmap arguments: the integers with no bit, the lowest bit and every
\* bit of MAX_BITS set, and the pairs of half-words
BitmapArgs ==
    {<<0>>, <<1>>, <<2 ^ MAX_BITS - 1>>}
        \cup {<<msb, lsb>> : msb \in HalfWords, lsb \in HalfWords}

\* the max_bits arguments: one bit, the default and one more than the default
WindowWidths == {1, MAX_BITS, MAX_BITS + 1}

\* the lists the peer installs first: empty, in range, past the range,
\* descending and repeated
WindowLists == {<<>>, <<0>>, <<MaxFrags>>, <<MaxFrags - 1, 0>>, <<1, 1>>}

WindowUpdate(seq_offset, bitmap, max_bits) ==
    /\ snd' = update_missing_fragments_bitmap(snd, seq_offset, bitmap, max_bits)
    /\ call' = Call("update_missing_fragments_bitmap", <<seq_offset, bitmap, max_bits>>,
                    "None", <<>>, snd)
    /\ UNCHANGED <<disk, rcv, channel, phase, tx_dict, rx_dict, threads>>

NextWindow ==
    \/ \E l \in WindowLists : BitmapOverwriteMissing(l)
    \/ \E seq_offset \in WindowOffsets, bitmap \in BitmapArgs, max_bits \in WindowWidths :
          WindowUpdate(seq_offset, bitmap, max_bits)

SpecWindow == InitBitmap /\ [][NextWindow]_vars


\* the arguments of the last update_missing_fragments_bitmap call
WindowOffset == call.arg[1]
WindowBitmapArg == call.arg[2]
WindowMaxBits == call.arg[3]

\* [offset, offset + min(max_bits, number_of_fragments - offset))
WindowOf(t, seq_offset, max_bits) ==
    {s \in 0..(2 * MaxFrags + 1) :
        /\ seq_offset <= s
        /\ s < seq_offset + Min2(max_bits, t.number_of_packets[1] - seq_offset)}

\* the integer an (msb, lsb) pair of half-words stands for
PairValue(bitmap) == bitmap[1] * WORD_MASK + bitmap[2]

\* C37: update_missing_fragments_bitmap(offset, bitmap, max_bits) changes the
\* membership only of sequence numbers inside
\* [offset, offset + min(max_bits, number_of_fragments - offset)); it changes
\* nothing when the offset is negative, the offset is at or past
\* number_of_fragments, or number_of_fragments is unknown; and an (msb, lsb)
\* pair gives the result of the integer it stands for.
C37_WindowOnly ==
    call.op = "update_missing_fragments_bitmap"
    => /\ (\/ call.pre.number_of_packets = None
           \/ WindowOffset < 0
           \/ WindowOffset >= call.pre.number_of_packets[1])
          => snd = call.pre
       /\ call.pre.number_of_packets # None
          => \A s \in ((-1)..(2 * MaxFrags + 1))
                        \ WindowOf(call.pre, WindowOffset, WindowMaxBits) :
                s \in ListSet(snd.missing_fragments)
                    <=> s \in ListSet(call.pre.missing_fragments)
       /\ Len(WindowBitmapArg) = 2
          => snd = update_missing_fragments_bitmap(call.pre, WindowOffset,
                       <<PairValue(WindowBitmapArg)>>, WindowMaxBits)

\* a pair applied to a window of two or more numbers that the fragment count
\* cuts short, with a missing number before the window, adding one number
\* and removing another
C37_Witness ==
    /\ call.op = "update_missing_fragments_bitmap"
    /\ Len(WindowBitmapArg) = 2
    /\ call.pre.number_of_packets # None
    /\ WindowOffset > 0
    /\ call.pre.number_of_packets[1] - WindowOffset < WindowMaxBits
    /\ Cardinality(WindowOf(call.pre, WindowOffset, WindowMaxBits)) >= 2
    /\ \E s \in 0..(WindowOffset - 1) : s \in ListSet(call.pre.missing_fragments)
    /\ ListSet(snd.missing_fragments) \ ListSet(call.pre.missing_fragments) # {}
    /\ ListSet(call.pre.missing_fragments) \ ListSet(snd.missing_fragments) # {}


\* C38: whenever the fragment count n of a transaction is known, its
\* missing_fragments holds only sequence numbers in 0..n-1 and holds no
\* number twice.
C38_MissingWellFormed ==
    snd.number_of_packets # None
    => /\ ListSet(snd.missing_fragments) \subseteq 0..(snd.number_of_packets[1] - 1)
       /\ Cardinality(ListSet(snd.missing_fragments)) = Len(snd.missing_fragments)


(***************************************************************************)
(* SpecStopGo: stop-and-go rounds between a sender and a receiver of the   *)
(* same file.  In a round the sender calls generate_x_packets(k), the      *)
(* channel delivers any subset of the batch to the receiver's add_packet,  *)
(* and the sender calls confirm_last_batch with the bitmap of the          *)
(* delivered fragments.  The batch size k is chosen once for the run; a    *)
(* generate_x_packets call that raises ends the round before anything is   *)
(* sent.  phase holds the step of the round, k and the sequence numbers    *)
(* delivered in the round.                                                 *)
(***************************************************************************)
\* add_packet on each delivered fragment, lowest sequence number first
RECURSIVE AddFragments(_, _)
AddFragments(t, frames) ==
    IF frames = {} THEN t
    ELSE LET frame == CHOOSE f \in frames : \A g \in frames :
                         UnpackFragment(f).seq_number <= UnpackFragment(g).seq_number
         IN AddFragments(add_fragment(t, UnpackFragment(frame)).t, frames \ {frame})

\* the bitmap of a batch: bit (width-1)-i is 1 when last_batch[i] was delivered
RECURSIVE DeliveredBitmap(_, _)
DeliveredBitmap(last_batch, delivered) ==
    IF last_batch = <<>> THEN 0
    ELSE (IF Head(last_batch) \in delivered THEN 2 ^ (Len(last_batch) - 1) ELSE 0)
         + DeliveredBitmap(Tail(last_batch), delivered)

InitStopGo ==
    /\ \E f \in TxFiles \ {<<>>} :
          disk = [p \in {"src", "dst"} |-> IF p = "src" THEN Some(f) ELSE None]
    /\ snd = Transaction(5, Some("src"), None, None, TRUE, disk)
    /\ rcv = Transaction(5, Some("dst"), None, snd.number_of_packets, FALSE, disk)
    /\ channel = NoChannel
    /\ call = Call("init", -1, "None", <<>>, <<>>)
    /\ \E k \in 1..MaxListLen : phase = [step |-> "generate", k |-> k, delivered |-> {}]
    /\ NoManager

StopGoGenerate ==
    LET r == generate_x_packets(snd, phase.k, disk)
    IN /\ phase.step = "generate"
       /\ snd' = r.t
       /\ channel' = ListSet(r.out)
       /\ phase' = IF r.ret = "list" THEN [phase EXCEPT !.step = "deliver"] ELSE phase
       /\ call' = Call("generate_x_packets", phase.k, r.ret, r.out, <<>>)
       /\ UNCHANGED <<disk, rcv, tx_dict, rx_dict, threads>>

StopGoDeliver(frames) ==
    /\ phase.step = "deliver"
    /\ frames \subseteq channel
    /\ rcv' = AddFragments(rcv, frames)
    /\ channel' = NoChannel
    /\ phase' = [phase EXCEPT !.step = "confirm",
                              !.delivered = {UnpackFragment(f).seq_number : f \in frames}]
    /\ call' = Call("add_packet", -1, "None", <<>>, <<>>)
    /\ UNCHANGED <<disk, snd, tx_dict, rx_dict, threads>>

StopGoConfirm ==
    LET bitmap == DeliveredBitmap(snd.last_batch, phase.delivered)
        r == confirm_last_batch(snd, bitmap)
    IN /\ phase.step = "confirm"
       /\ snd' = r.t
       /\ phase' = [phase EXCEPT !.step = "generate", !.delivered = {}]
       /\ call' = Call("confirm_last_batch", bitmap, "int", <<r.val>>, <<>>)
       /\ UNCHANGED <<disk, rcv, channel, tx_dict, rx_dict, threads>>

\* the frames of the round that carry sequence number seq reach the receiver
StopGoDeliverSeq(seq) ==
    \E frames \in SUBSET channel :
       /\ seq \in {UnpackFragment(f).seq_number : f \in frames}
       /\ StopGoDeliver(frames)

NextStopGo ==
    \/ StopGoGenerate
    \/ \E frames \in SUBSET channel : StopGoDeliver(frames)
    \/ StopGoConfirm

SpecStopGo == InitStopGo /\ [][NextStopGo]_vars

\* every step of a round is eventually taken, and a fragment that is sent
\* again and again is eventually delivered
SpecStopGoFair ==
    /\ SpecStopGo
    /\ WF_vars(NextStopGo)
    /\ \A seq \in 0..MaxSeq : SF_vars(StopGoDeliverSeq(seq))

\* the transfer is over: nothing is missing at the sender and the receiver
\* holds every fragment
StopGoDone == snd.missing_fragments = <<>> /\ rcv.state = COMPLETED

\* C39: in stop-and-go rounds with any batch size k >= 1, the sender's
\* missing set equals the receiver's after each round, and with a fair
\* channel the run eventually reaches an empty sender missing set and a
\* receiver in COMPLETED.
C39_StopAndGoProgress ==
    /\ [](phase.step = "generate"
            => ListSet(snd.missing_fragments) = ListSet(rcv.missing_fragments))
    /\ <>StopGoDone


(***************************************************************************)
(* SpecHandover: a whole transfer with the hash sent as three integers.    *)
(* The sender's hash is absent or the digest of its file; the receiver is  *)
(* created without a hash, sets it with set_hash_from_integers from what   *)
(* the sender's get_hash_as_integers returned, receives every fragment of  *)
(* generate_all_packets once, in any order, and writes the file.  phase    *)
(* holds the step and the integers in flight.                              *)
(***************************************************************************)
InitHandover ==
    /\ \E f \in TxFiles :
          disk = [p \in {"src", "dst"} |-> IF p = "src" THEN Some(f) ELSE None]
    /\ \E tid \in Tids, with_hash \in BOOLEAN :
          LET s == Transaction(tid, Some("src"), None, None, TRUE, disk)
          IN snd = IF with_hash
                   THEN [s EXCEPT !.file_hash = calculate_file_hash(s, disk)]
                   ELSE s
    /\ rcv = Transaction(snd.tid, Some("dst"), None, snd.number_of_packets, FALSE, disk)
    /\ channel = NoChannel
    /\ call = Call("init", -1, "None", <<>>, <<>>)
    /\ phase = [step |-> "get_hash", integers |-> <<>>]
    /\ NoManager

HandoverGetHash ==
    /\ phase.step = "get_hash"
    /\ phase' = [step |-> "set_hash", integers |-> get_hash_as_integers(snd)]
    /\ call' = Call("get_hash_as_integers", -1, "tuple", <<>>, <<>>)
    /\ UNCHANGED <<disk, snd, rcv, channel, tx_dict, rx_dict, threads>>

HandoverSetHash ==
    LET r == set_hash_from_integers(rcv, phase.integers[1], phase.integers[2],
                                    phase.integers[3])
    IN /\ phase.step = "set_hash"
       /\ rcv' = r.t
       /\ phase' = [phase EXCEPT !.step = "generate"]
       /\ call' = Call("set_hash_from_integers", -1, r.ret, <<>>, <<>>)
       /\ UNCHANGED <<disk, snd, channel, tx_dict, rx_dict, threads>>

HandoverGenerateAll ==
    LET r == generate_all_packets(snd, disk)
    IN /\ phase.step = "generate"
       /\ snd' = r.t
       /\ channel' = ListSet(r.out)
       /\ phase' = [phase EXCEPT !.step = "deliver"]
       /\ call' = Call("generate_all_packets", -1, r.ret, <<>>, <<>>)
       /\ UNCHANGED <<disk, rcv, tx_dict, rx_dict, threads>>

HandoverDeliver(frame) ==
    LET r == add_fragment(rcv, UnpackFragment(frame))
    IN /\ phase.step = "deliver"
       /\ frame \in channel
       /\ rcv' = r.t
       /\ channel' = channel \ {frame}
       /\ call' = Call("add_fragment", UnpackFragment(frame).seq_number, r.ret, <<>>, <<>>)
       /\ UNCHANGED <<disk, snd, phase, tx_dict, rx_dict, threads>>

HandoverWriteFile ==
    LET r == write_file(rcv, disk)
    IN /\ phase.step = "deliver"
       /\ channel = {}
       /\ rcv' = r.t
       /\ disk' = r.disk
       /\ phase' = [phase EXCEPT !.step = "done"]
       /\ call' = Call("write_file", -1, r.ret, <<>>, <<>>)
       /\ UNCHANGED <<snd, channel, tx_dict, rx_dict, threads>>

NextHandover ==
    \/ HandoverGetHash
    \/ HandoverSetHash
    \/ HandoverGenerateAll
    \/ \E frame \in channel : HandoverDeliver(frame)
    \/ HandoverWriteFile

SpecHandover == InitHandover /\ [][NextHandover]_vars

\* C40: when the sender's transaction has no hash and the receiver has set
\* its hash from the integers of the sender's get_hash_as_integers and has
\* received every fragment, write_file skips verification and ends in
\* SUCCESS.
C40_AbsentHashSurvives ==
    (call.op = "write_file" /\ snd.file_hash = None)
    => /\ call.ret = "True"
       /\ rcv.state = SUCCESS

====
